---- MODULE Spec2Model ----
(***************************************************************************)
(* Versioned subtitle store (subserver): the key codec, the version        *)
(* allocator of POST /upload, the prefix-scoped deletes and the abstract   *)
(* object store they run against.                                          *)
(*                                                                         *)
(* Strings are sequences of one-character strings, so that prefix scans,   *)
(* split(), parseInt() and template literals are computed, not assumed.    *)
(***************************************************************************)
EXTENDS Integers, Sequences, FiniteSets, TLC

(***************************************************************************)
(* Bounds of the model.                                                    *)
(***************************************************************************)
MaxUploads == 3          \* objects written by uploads in one behaviour
MaxInFlight == 2         \* requests being handled at the same time
MaxSrcLen == 2           \* codec check: source tags of 1..MaxSrcLen characters
MaxTextLen == 3          \* sanitise check: texts of 0..MaxTextLen characters

(***************************************************************************)
(* JavaScript strings and values.                                          *)
(***************************************************************************)
Digits == <<"0", "1", "2", "3", "4", "5", "6", "7", "8", "9">>

\* the characters of the model in code-unit order (the order GCS lists keys in)
AsciiOrder ==
    <<" ", "!", "-", ".", "/", "0", "1", "2", "3", "4", "5", "6", "7", "8",
      "9", "F", "_", "a", "b", "e", "f", "h", "i", "n", "o", "p", "r", "s",
      "t", "v", "w", "x", "z">>

Code(c) == CHOOSE i \in 1..Len(AsciiOrder) : AsciiOrder[i] = c

IsDigit(c) == \E i \in 1..10 : Digits[i] = c

DigitVal(c) == (CHOOSE i \in 1..10 : Digits[i] = c) - 1

\* String.prototype.startsWith / endsWith
StartsWith(s, p) == Len(p) <= Len(s) /\ SubSeq(s, 1, Len(p)) = p

EndsWith(s, p) == Len(p) <= Len(s) /\ SubSeq(s, Len(s) - Len(p) + 1, Len(s)) = p

\* s < t in code-unit order
RECURSIVE StrLess(_, _)
StrLess(s, t) ==
    IF t = <<>> THEN FALSE
    ELSE IF s = <<>> THEN TRUE
    ELSE IF s[1] = t[1] THEN StrLess(Tail(s), Tail(t))
    ELSE Code(s[1]) < Code(t[1])

\* Number.prototype.toString for a non-negative integer
RECURSIVE NumToString(_)
NumToString(n) ==
    IF n < 10 THEN <<Digits[n + 1]>>
    ELSE NumToString(n \div 10) \o <<Digits[(n % 10) + 1]>>

\* String.prototype.split(sep) for a non-empty separator
RECURSIVE SplitFrom(_, _, _)
SplitFrom(s, sep, cur) ==
    IF s = <<>> THEN <<cur>>
    ELSE IF StartsWith(s, sep)
         THEN <<cur>> \o SplitFrom(SubSeq(s, Len(sep) + 1, Len(s)), sep, <<>>)
         ELSE SplitFrom(Tail(s), sep, Append(cur, s[1]))

Split(s, sep) == SplitFrom(s, sep, <<>>)

\* the length of the run of digits s starts with
RECURSIVE DigitRun(_)
DigitRun(s) ==
    IF s = <<>> \/ ~IsDigit(s[1]) THEN 0 ELSE 1 + DigitRun(Tail(s))

RECURSIVE DigitsValue(_, _)
DigitsValue(s, acc) ==
    IF s = <<>> THEN acc ELSE DigitsValue(Tail(s), acc * 10 + DigitVal(s[1]))

RECURSIVE SkipSpaces(_)
SkipSpaces(s) == IF s # <<>> /\ s[1] = " " THEN SkipSpaces(Tail(s)) ELSE s

NaN == [nan |-> TRUE, n |-> 0]

\* parseInt(s, 10): leading white space is skipped, then the longest run of
\* digits is read; NaN when there is none (no character of the model is a sign)
ParseInt(s) ==
    LET t == SkipSpaces(s)
        k == DigitRun(t)
    IN  IF k = 0 THEN NaN ELSE [nan |-> FALSE, n |-> DigitsValue(SubSeq(t, 1, k), 0)]

\* JavaScript values that reach the version allocator: a string, a number, null
JsString(s) == [t |-> "string", s |-> s, n |-> 0]
JsNumber(n) == [t |-> "number", s |-> <<>>, n |-> n]
JsNull == [t |-> "null", s |-> <<>>, n |-> 0]

\* !x
Falsy(x) ==
    \/ x.t = "null"
    \/ x.t = "string" /\ x.s = <<>>
    \/ x.t = "number" /\ x.n = 0

\* `${x}`
TemplateString(x) ==
    IF x.t = "string" THEN x.s
    ELSE IF x.t = "number" THEN NumToString(x.n)
    ELSE <<"n", "u", "l", "l">>

\* x === y
StrictEquals(x, y) == x.t = y.t /\ x.s = y.s /\ x.n = y.n


Last(q) == q[Len(q)]

(***************************************************************************)
(* Helpers of the server (sanitise, extractEpisodeNumber, the leaf codec). *)
(***************************************************************************)
\* String.prototype.toLowerCase on the characters of the model
ToLowerCase(s) == [i \in 1..Len(s) |-> IF s[i] = "F" THEN "f" ELSE s[i]]

IsAlnum(c) == c \notin {" ", "!", "-", ".", "/", "_"}

\* slugify step 1: the replacement character becomes a space, then the
\* characters of the `remove` option are dropped
RECURSIVE SlugChars(_)
SlugChars(s) ==
    IF s = <<>> THEN <<>>
    ELSE LET c == IF s[1] = "-" THEN " " ELSE s[1]
         IN  (IF c \in {".", "!"} THEN <<>> ELSE <<c>>) \o SlugChars(Tail(s))

\* mutant: strict mode removes nothing
SlugStrictNot(s) == s

\* slugify strict mode: slug.replace(/[^A-Za-z0-9\s]/g, '')
RECURSIVE SlugStrict(_)
SlugStrict(s) ==
    IF s = <<>> THEN <<>>
    ELSE (IF IsAlnum(s[1]) \/ s[1] = " " THEN <<s[1]>> ELSE <<>>) \o SlugStrict(Tail(s))

RECURSIVE TrimEnd(_)
TrimEnd(s) == IF s # <<>> /\ Last(s) = " " THEN TrimEnd(SubSeq(s, 1, Len(s) - 1)) ELSE s

Trim(s) == TrimEnd(SkipSpaces(s))

\* slug.replace(/\s+/g, '-')
RECURSIVE SlugSpaces(_)
SlugSpaces(s) ==
    IF s = <<>> THEN <<>>
    ELSE IF s[1] = " " THEN <<"-">> \o SlugSpaces(SkipSpaces(s))
    ELSE <<s[1]>> \o SlugSpaces(Tail(s))

\* sanitise(str) = slugify(str, {lower: true, strict: true, remove: /[*+~.()'"!:@]/g})
sanitise(str) == ToLowerCase(SlugSpaces(Trim(SlugStrict(SlugChars(str)))))

\* filename.match(/(?:^|\D)(\d{1,3})(?:\.srt|$)/): the leftmost run of one to
\* three digits that is followed by ".srt" or by the end of the name
extractEpisodeNumber(filename) ==
    LET Starts == {p \in 1..Len(filename) :
                     /\ IsDigit(filename[p])
                     /\ (p = 1 \/ ~IsDigit(filename[p - 1]))
                     /\ LET rest == SubSeq(filename, p, Len(filename))
                            k == DigitRun(rest)
                            after == SubSeq(rest, k + 1, Len(rest))
                        IN  k <= 3 /\ (after = <<>> \/ StartsWith(after, <<".", "s", "r", "t">>))}
    IN  IF Starts = {} THEN JsNull
        ELSE LET p == CHOOSE q \in Starts : \A r \in Starts : q <= r
                 rest == SubSeq(filename, p, Len(filename))
             IN  JsNumber(DigitsValue(SubSeq(rest, 1, DigitRun(rest)), 0))

\* path.basename(name, ext) for a name without "/"
Basename(name, ext) ==
    IF EndsWith(name, ext) THEN SubSeq(name, 1, Len(name) - Len(ext)) ELSE name

NoParse == [ok |-> FALSE, episode |-> 0, version |-> 0, source |-> <<>>]

parseVersionedFilename(filename) ==
    LET base == Basename(filename, <<".", "s", "r", "t">>)
        parts == Split(base, <<"_", "v">>)
    IN  IF Len(parts) # 2 THEN NoParse
        ELSE LET versionSource == Split(parts[2], <<"_">>)
             IN  IF Len(versionSource) # 2 THEN NoParse
                 ELSE LET version == ParseInt(versionSource[1])
                          source == versionSource[2]
                          episode == ParseInt(parts[1])
                      IN  IF episode.nan \/ version.nan \/ source = <<>> THEN NoParse
                          ELSE [ok |-> TRUE, episode |-> episode.n,
                                version |-> version.n, source |-> source]

\* mutant: the source tag is left out of the leaf
buildVersionedFilenameNoSource(episode, version, source) ==
    TemplateString(episode) \o <<"_", "v">> \o NumToString(version) \o <<".", "s", "r", "t">>

\* `${episode}_v${version}_${source}.srt`
buildVersionedFilename(episode, version, source) ==
    TemplateString(episode) \o <<"_", "v">> \o NumToString(version) \o <<"_">>
        \o source \o <<".", "s", "r", "t">>


(***************************************************************************)
(* Request inputs.  A workload names the values the requests of one        *)
(* specification are drawn from (targets: the title and season of the      *)
(* uploads), and how many requests may be in flight.                       *)
(***************************************************************************)
Absent == <<>>              \* a missing (or empty) form field
DotSrt == <<".", "s", "r", "t">>
DotZip == <<".", "z", "i", "p">>
ShowsRoot == <<"s", "h", "o", "w", "s">>
Slash == <<"/">>
SeasonTag == <<"s", "e", "a", "s", "o", "n", "-">>

OneSrt == <<"1">> \o DotSrt          \* "1.srt": episode 1 is derived from the name
NoEpSrt == <<"x">> \o DotSrt         \* "x.srt": no episode number in the name
OtherName == <<"n", ".", "t", "x", "t">>

\* the uploaded file: req.body.episode and file.originalname
Form(episode, name) == [episode |-> episode, name |-> name]

\* upload requests with a missing title, a missing source, no file, a file that
\* is neither .srt nor .zip, and no episode number
Rejected ==
    LET q(title, source, hasFile, form) ==
            [title |-> title, source |-> source, hasFile |-> hasFile, form |-> form]
    IN  {q(Absent, <<"a">>, TRUE, Form(Absent, OneSrt)),
         q(<<"F">>, Absent, TRUE, Form(Absent, OneSrt)),
         q(<<"F">>, <<"a">>, FALSE, Form(Absent, OneSrt)),
         q(<<"F">>, <<"a">>, TRUE, Form(Absent, OtherName)),
         q(<<"F">>, <<"a">>, TRUE, Form(Absent, NoEpSrt))}

\* version allocation: one season of one show, explicit and derived episodes,
\* a source tag with "_"
AllocInputs ==
    [titles |-> {<<"F">>},
     seasons |-> {<<"1">>},
     targets |-> {<<<<"F">>, <<"1">>>>},
     sources |-> {<<"a">>, <<"a", "_", "b">>},
     bytes |-> {"x"},
     scopes |-> {"clear-all", "show", "season", "episode"},
     forms |-> {Form(<<"1">>, NoEpSrt), Form(Absent, OneSrt)},
     rejected |-> Rejected,
     archives |-> {<<NoEpSrt>>, <<NoEpSrt, OneSrt>>, <<OneSrt, OneSrt>>},
     episodes |-> {<<"1">>},
     versions |-> {<<"1">>, <<"2">>},
     keys |-> {Absent},
     inflight |-> 1]

\* scoping: two shows (one name a prefix of the other), seasons 1 and 10
ScopeInputs ==
    [titles |-> {<<"F">>, <<"f", "o">>},
     seasons |-> {Absent, <<"1">>, <<"1", "0">>},
     targets |-> {<<<<"F">>, Absent>>, <<<<"F">>, <<"1">>>>, <<<<"F">>, <<"1", "0">>>>,
                  <<<<"f", "o">>, <<"1">>>>},
     sources |-> {<<"a">>},
     bytes |-> {"x"},
     scopes |-> {"clear-all", "show", "season", "episode"},
     forms |-> {Form(Absent, OneSrt)},
     rejected |-> Rejected,
     archives |-> {},
     episodes |-> {<<"1">>},
     versions |-> {<<"1">>},
     keys |-> {Absent},
     inflight |-> 1]

\* overlapping requests on one episode
RaceInputs ==
    [titles |-> {<<"F">>},
     seasons |-> {Absent},
     targets |-> {<<<<"F">>, Absent>>},
     sources |-> {<<"a">>, <<"b">>},
     bytes |-> {"x"},
     scopes |-> {"show", "episode"},
     forms |-> {Form(Absent, OneSrt)},
     rejected |-> Rejected,
     archives |-> {},
     episodes |-> {<<"1">>},
     versions |-> {<<"1">>},
     keys |-> {Absent},
     inflight |-> MaxInFlight]

\* episode and version deletes: episodes 1, 11 and 21 derived from the file
\* name, and episode "01" given in the request
ElevenSrt == <<"1", "1">> \o DotSrt
TwentyOneSrt == <<"2", "1">> \o DotSrt

ExactInputs ==
    [titles |-> {<<"F">>},
     seasons |-> {Absent, <<"1">>},
     targets |-> {<<<<"F">>, Absent>>, <<<<"F">>, <<"1">>>>},
     sources |-> {<<"a">>},
     bytes |-> {"x"},
     scopes |-> {"episode"},
     forms |-> {Form(Absent, OneSrt), Form(Absent, ElevenSrt), Form(Absent, TwentyOneSrt),
                Form(<<"0", "1">>, NoEpSrt)},
     rejected |-> Rejected,
     archives |-> {},
     episodes |-> {<<"1">>},
     versions |-> {<<"1">>},
     keys |-> {Absent},
     inflight |-> 1]

\* store failures: one show, two sources
FailInputs ==
    [titles |-> {<<"F">>},
     seasons |-> {Absent},
     targets |-> {<<<<"F">>, Absent>>},
     sources |-> {<<"a">>, <<"b">>},
     bytes |-> {"x"},
     scopes |-> {"show"},
     forms |-> {Form(Absent, OneSrt)},
     rejected |-> Rejected,
     archives |-> {},
     episodes |-> {<<"1">>},
     versions |-> {<<"1">>},
     keys |-> {Absent},
     inflight |-> 1]

\* the catalog: season-less and season 1 episodes of one show, a source tag
\* whose leaf does not decode
ListInputs ==
    [titles |-> {<<"F">>},
     seasons |-> {Absent, <<"1">>},
     targets |-> {<<<<"F">>, Absent>>, <<<<"F">>, <<"1">>>>},
     sources |-> {<<"a">>, <<"a", "_", "b">>},
     bytes |-> {"x"},
     scopes |-> {"show"},
     forms |-> {Form(Absent, OneSrt)},
     rejected |-> Rejected,
     archives |-> {},
     episodes |-> {<<"1">>},
     versions |-> {<<"1">>},
     keys |-> {Absent},
     inflight |-> 1]

\* reads: one episode of one show, two source tags (one with an underscore),
\* two contents, and the unversioned server's keys
ReadInputs ==
    [titles |-> {<<"F">>},
     seasons |-> {Absent},
     targets |-> {<<<<"F">>, Absent>>},
     sources |-> {<<"a">>, <<"a", "_", "b">>},
     bytes |-> {"x", "y"},
     scopes |-> {"episode"},
     forms |-> {Form(Absent, OneSrt)},
     rejected |-> Rejected,
     archives |-> {},
     episodes |-> {<<"1">>},
     versions |-> {<<"1">>, <<"2">>},
     keys |-> {Absent},
     inflight |-> 1]

\* the write gate: requests without a key, with the configured key "k" and
\* with another key "w"
GateInputs ==
    [titles |-> {<<"F">>},
     seasons |-> {Absent},
     targets |-> {<<<<"F">>, Absent>>},
     sources |-> {<<"a">>},
     bytes |-> {"x"},
     scopes |-> {"show"},
     forms |-> {Form(Absent, OneSrt)},
     rejected |-> {},
     archives |-> {},
     episodes |-> {<<"1">>},
     versions |-> {<<"1">>},
     keys |-> {Absent, <<"k">>, <<"w">>},
     inflight |-> 1]

\* addresses: a title and a season that sanitise to the empty string, an
\* episode field that is no number, and a valid address
AddressInputs ==
    [titles |-> {<<"F">>, <<"!">>},
     seasons |-> {Absent, <<"!">>},
     targets |-> {<<<<"F">>, Absent>>, <<<<"!">>, Absent>>, <<<<"F">>, <<"!">>>>},
     sources |-> {<<"a">>},
     bytes |-> {"x"},
     scopes |-> {"show"},
     forms |-> {Form(Absent, OneSrt), Form(<<"x">>, OneSrt), Form(<<"0">>, OneSrt)},
     rejected |-> Rejected,
     archives |-> {},
     episodes |-> {<<"1">>},
     versions |-> {<<"1">>},
     keys |-> {Absent},
     inflight |-> 1]

\* existence checks: episode 1 of one show without a season and in season 1,
\* uploaded by file name and with the episode field "01"
HeadInputs ==
    [titles |-> {<<"F">>},
     seasons |-> {Absent, <<"1">>},
     targets |-> {<<<<"F">>, Absent>>, <<<<"F">>, <<"1">>>>},
     sources |-> {<<"a">>},
     bytes |-> {"x"},
     scopes |-> {"show"},
     forms |-> {Form(Absent, OneSrt), Form(<<"0", "1">>, NoEpSrt)},
     rejected |-> Rejected,
     archives |-> {},
     episodes |-> {<<"1">>},
     versions |-> {<<"1">>},
     keys |-> {Absent},
     inflight |-> 1]

\* addressing what the catalog reports: episode 1 of one show, uploaded by
\* file name and with the episode field "01"
CatalogInputs ==
    [titles |-> {<<"F">>},
     seasons |-> {Absent},
     targets |-> {<<<<"F">>, Absent>>},
     sources |-> {<<"a">>},
     bytes |-> {"x"},
     scopes |-> {"episode"},
     forms |-> {Form(Absent, OneSrt), Form(<<"0", "1">>, NoEpSrt)},
     rejected |-> Rejected,
     archives |-> {},
     episodes |-> {<<"1">>},
     versions |-> {<<"1">>, <<"2">>},
     keys |-> {Absent},
     inflight |-> 1]

\* the frame of the allocator: episodes 1 and 11, a show with and without a
\* season, a show whose name starts with the other's, single files and archives
FrameInputs ==
    [titles |-> {<<"F">>, <<"f", "o">>},
     seasons |-> {Absent, <<"1">>},
     targets |-> {<<<<"F">>, Absent>>, <<<<"F">>, <<"1">>>>, <<<<"f", "o">>, Absent>>},
     sources |-> {<<"a">>},
     bytes |-> {"x"},
     scopes |-> {"show"},
     forms |-> {Form(Absent, OneSrt), Form(Absent, ElevenSrt)},
     rejected |-> Rejected,
     archives |-> {<<OneSrt>>, <<ElevenSrt, OneSrt>>},
     episodes |-> {<<"1">>},
     versions |-> {<<"1">>},
     keys |-> {Absent},
     inflight |-> 1]

\* a catalog listing that overlaps uploads and a show delete
ListRaceInputs ==
    [titles |-> {<<"F">>},
     seasons |-> {Absent},
     targets |-> {<<<<"F">>, Absent>>},
     sources |-> {<<"a">>},
     bytes |-> {"x"},
     scopes |-> {"show"},
     forms |-> {Form(Absent, OneSrt)},
     rejected |-> Rejected,
     archives |-> {},
     episodes |-> {<<"1">>},
     versions |-> {<<"1">>},
     keys |-> {Absent},
     inflight |-> MaxInFlight]

(***************************************************************************)
(* State.                                                                  *)
(***************************************************************************)
VARIABLES
    store,        \* the bucket: object name -> [content, source]
    reqs,         \* the requests being handled, by slot
    resp,         \* the response sent last
    hist,         \* history: scan prefix -> the versions its uploads were assigned, in order
    deleted,      \* history: some delete removed an object
    codec,        \* the codec check: address, leaf and decoded address
    catalog,      \* the body of the last JSON /list response and the listing it was built from
    asked,        \* history: the parameters of the delete request received last
    gate          \* API_KEY of the deployment; history: the x-api-key of the write request received last

vars == <<store, reqs, resp, hist, deleted, codec, catalog, asked, gate>>

Slots == 1..MaxInFlight

Idle == [kind |-> "idle"]

NoResp == [op |-> "none", status |-> 0, count |-> 0, uploaded |-> <<>>, body |-> <<>>]

EmptyStore == [k \in {} |-> 0]

NoCatalog == [order |-> <<>>, shows |-> EmptyStore]

\* API_KEY is not set and no write request was received
NoGate == [apiKey |-> <<>>, key |-> <<>>, passed |-> FALSE]

NoAsk == [scope |-> "none", show |-> <<>>, season |-> <<>>, episode |-> <<>>, version |-> <<>>]

Busy == {i \in Slots : reqs[i].kind # "idle"}

\* the slot a new request is handled in
FreeSlot == CHOOSE i \in Slots \ Busy : \A j \in Slots \ Busy : i <= j

\* mutant: the listing returns one object name at most
getFilesOnePage(prefix) ==
    LET all == {k \in DOMAIN store : StartsWith(k, prefix)}
    IN  IF all = {} THEN {} ELSE {CHOOSE k \in all : TRUE}

\* bucket.getFiles({prefix}): the names of the stored objects that start with prefix
getFiles(prefix) == {k \in DOMAIN store : StartsWith(k, prefix)}

\* files[0]: GCS lists object names in code-unit order
FirstFile(files) == CHOOSE k \in files : \A j \in files : j = k \/ StrLess(k, j)

\* blob.save(data, {metadata: {source}}): creates or replaces the object
Save(key, obj) == [k \in DOMAIN store \cup {key} |-> IF k = key THEN obj ELSE store[k]]

\* file.delete()
Remove(key) == [k \in DOMAIN store \ {key} |-> store[k]]

Init ==
    /\ store = EmptyStore
    /\ reqs = [i \in Slots |-> Idle]
    /\ resp = NoResp
    /\ hist = EmptyStore
    /\ deleted = FALSE
    /\ codec = <<>>
    /\ catalog = NoCatalog
    /\ asked = NoAsk
    /\ gate = NoGate

\* a request is received while fewer than U.inflight requests are being handled
Accepts(U) == Cardinality(Busy) < U.inflight

\* requireApiKey: next() is called when API_KEY is not set or the x-api-key
\* header equals it
requireApiKey(apiKey, key) == apiKey = Absent \/ key = apiKey

\* a write request passes requireApiKey
Admitted(U) ==
    \E key \in U.keys :
        /\ requireApiKey(gate.apiKey, key)
        /\ gate' = [gate EXCEPT !.key = key, !.passed = TRUE]

\* requireApiKey answers 403 and the route handler does not run
GateReject(U) ==
    \E key \in U.keys, op \in {"upload", "version"} \cup U.scopes :
        /\ Accepts(U)
        /\ ~requireApiKey(gate.apiKey, key)
        /\ gate' = [gate EXCEPT !.key = key, !.passed = FALSE]
        /\ resp' = [op |-> op, status |-> 403, count |-> 0, uploaded |-> <<>>,
                    body |-> <<>>]
        /\ UNCHANGED <<store, reqs, hist, deleted, codec, catalog, asked>>

\* a request enters a free slot
Start(U, i, r) ==
    /\ Accepts(U)
    /\ i = FreeSlot
    /\ reqs' = [reqs EXCEPT ![i] = r]

\* res.status(status).json(...)
Respond(op, status, count, uploaded) ==
    resp' = [op |-> op, status |-> status, count |-> count, uploaded |-> uploaded,
             body |-> <<>>]

(***************************************************************************)
(* POST /upload                                                            *)
(***************************************************************************)
\* `shows/${safeTitle}` plus `/season-${sanitise(String(season))}` if (season)
DestDir(title, season) ==
    ShowsRoot \o Slash \o sanitise(title)
        \o (IF season # Absent THEN Slash \o SeasonTag \o sanitise(season) ELSE <<>>)

\* mutant: the scan lists the whole show
UploadPrefixWholeShow(title, season, episode) == ShowsRoot \o Slash \o sanitise(title) \o Slash

\* the scan prefix of an upload
UploadPrefix(title, season, episode) ==
    DestDir(title, season) \o Slash \o TemplateString(episode) \o <<"_", "v">>

RECURSIVE SetMax(_)
SetMax(ns) ==
    IF ns = {} THEN 0
    ELSE LET n == CHOOSE m \in ns : TRUE
             r == SetMax(ns \ {n})
         IN  IF n > r THEN n ELSE r

\* mutant: maxVersion starts at 1 instead of 0
NextVersionFromOne(files, episode) ==
    LET counted == {f \in files :
                      LET parsed == parseVersionedFilename(Last(Split(f, Slash)))
                      IN  parsed.ok /\ StrictEquals(JsNumber(parsed.episode), episode)}
    IN  SetMax({1} \cup {parseVersionedFilename(Last(Split(f, Slash))).version : f \in counted})
            + 1

\* the loop over the listed files and `maxVersion + 1`
NextVersion(files, episode) ==
    LET counted == {f \in files :
                      LET parsed == parseVersionedFilename(Last(Split(f, Slash)))
                      IN  parsed.ok /\ StrictEquals(JsNumber(parsed.episode), episode)}
    IN  SetMax({parseVersionedFilename(Last(Split(f, Slash))).version : f \in counted}) + 1

\* req.body.episode || extractEpisodeNumber(file.originalname)
UploadEpisode(form) ==
    IF ~Falsy(JsString(form.episode)) THEN JsString(form.episode)
    ELSE extractEpisodeNumber(form.name)

\* an upload between its scan and its save
Scanned(kind, title, season, source, content, episode, entries, pos, done) ==
    LET files == getFiles(UploadPrefix(title, season, episode))
        version == NextVersion(files, episode)
        destFilename == buildVersionedFilename(episode, version, source)
    IN  [kind |-> kind, title |-> title, season |-> season, source |-> source,
         episode |-> episode, version |-> version, files |-> files,
         prefix |-> UploadPrefix(title, season, episode),
         destFilename |-> destFilename,
         destPath |-> DestDir(title, season) \o Slash \o destFilename,
         content |-> content, entries |-> entries, pos |-> pos, uploaded |-> done]

\* mutant: no entry is skipped
ZipNextSkipsNothing(entries, from) == IF from > Len(entries) THEN 0 ELSE from

\* the first entry at or after position `from` that the archive loop stores:
\* a name ending in .srt from which an episode number is extracted; 0 if none
RECURSIVE ZipNext(_, _)
ZipNext(entries, from) ==
    IF from > Len(entries) THEN 0
    ELSE IF /\ EndsWith(ToLowerCase(entries[from]), DotSrt)
            /\ ~Falsy(extractEpisodeNumber(entries[from]))
         THEN from
         ELSE ZipNext(entries, from + 1)

ZipStored(entries) == {p \in 1..Len(entries) : ZipNext(entries, p) = p}

\* the versions assigned so far to the uploads that scanned prefix
Assigned(prefix) == IF prefix \in DOMAIN hist THEN hist[prefix] ELSE <<>>

Logged(r) ==
    [p \in DOMAIN hist \cup {r.prefix} |->
        IF p = r.prefix THEN Append(Assigned(p), [version |-> r.version, kind |-> r.kind])
        ELSE hist[p]]

\* the objects written so far
Written ==
    LET count[P \in SUBSET DOMAIN hist] ==
            IF P = {} THEN 0
            ELSE LET p == CHOOSE q \in P : TRUE IN Len(hist[p]) + count[P \ {p}]
    IN  count[DOMAIN hist]

\* the objects the uploads in flight have yet to write
Writing ==
    LET left(r) == IF r.kind = "upload" THEN 1
                   ELSE IF r.kind \in {"zip", "zipscan"}
                        THEN Cardinality({p \in ZipStored(r.entries) : p >= r.pos})
                        ELSE 0
        sum[n \in 0..MaxInFlight] == IF n = 0 THEN 0 ELSE sum[n - 1] + left(reqs[n])
    IN  sum[MaxInFlight]

\* mutant: a request without a source tag is not turned away
UploadInvalidSourceOptional(q) ==
    \/ q.title = Absent
    \/ ~q.hasFile
    \/ ~EndsWith(q.form.name, DotZip) /\ ~EndsWith(ToLowerCase(q.form.name), DotSrt)
    \/ EndsWith(ToLowerCase(q.form.name), DotSrt) /\ Falsy(UploadEpisode(q.form))

\* the tests of the handler that answer 400: !title, !source, !file, a name
\* that ends in neither .zip nor .srt, a single .srt without an episode
UploadInvalid(q) ==
    \/ q.title = Absent
    \/ q.source = Absent
    \/ ~q.hasFile
    \/ ~EndsWith(q.form.name, DotZip) /\ ~EndsWith(ToLowerCase(q.form.name), DotSrt)
    \/ EndsWith(ToLowerCase(q.form.name), DotSrt) /\ Falsy(UploadEpisode(q.form))

\* the request is answered 400 before any store operation
UploadReject(U) ==
    \E q \in U.rejected :
        /\ Accepts(U)
        /\ UploadInvalid(q)
        /\ Admitted(U)
        /\ Respond("upload", 400, 0, <<>>)
        /\ UNCHANGED <<store, reqs, hist, deleted, codec, catalog, asked>>

\* single .srt: validation, episode detection, the scan and the version
UploadScan(U, i) ==
    \E target \in U.targets, source \in U.sources, form \in U.forms,
       content \in U.bytes :
        /\ EndsWith(ToLowerCase(form.name), DotSrt)
        /\ ~Falsy(UploadEpisode(form))
        /\ Written + Writing < MaxUploads
        /\ Start(U, i, Scanned("upload", target[1], target[2], source, content, UploadEpisode(form),
                               <<>>, 0, <<>>))
        /\ Admitted(U)
        /\ UNCHANGED <<store, resp, hist, deleted, codec, catalog, asked>>

Uploaded(r) ==
    [filename |-> r.destFilename, episode |-> r.episode, version |-> r.version,
     source |-> r.source]

\* single .srt: blob.save and the response
UploadSave(i) ==
    /\ reqs[i].kind = "upload"
    /\ store' = Save(reqs[i].destPath, [content |-> reqs[i].content, source |-> reqs[i].source])
    /\ Respond("upload", 200, 0, <<Uploaded(reqs[i])>>)
    /\ hist' = Logged(reqs[i])
    /\ reqs' = [reqs EXCEPT ![i] = Idle]
    /\ UNCHANGED <<deleted, codec, catalog, asked, gate>>

\* archive: validation and the first entry's scan; an archive without a
\* storable entry is answered at once with an empty list
ZipStart(U, i) ==
    \E target \in U.targets, source \in U.sources, entries \in U.archives,
       content \in U.bytes :
        LET pos == ZipNext(entries, 1)
        IN  IF pos = 0
            THEN /\ Accepts(U)
                 /\ Admitted(U)
                 /\ Respond("upload", 200, 0, <<>>)
                 /\ UNCHANGED <<store, reqs, hist, deleted, codec, catalog, asked>>
            ELSE /\ Written + Writing + Cardinality(ZipStored(entries)) <= MaxUploads
                 /\ Start(U, i, Scanned("zip", target[1], target[2], source, content,
                                        extractEpisodeNumber(entries[pos]), entries, pos, <<>>))
                 /\ Admitted(U)
                 /\ UNCHANGED <<store, resp, hist, deleted, codec, catalog, asked>>

\* archive: blob.save of the current entry, then the next entry or the response
ZipSave(i) ==
    LET r == reqs[i]
        pos == ZipNext(r.entries, r.pos + 1)
        done == Append(r.uploaded, Uploaded(r))
    IN  /\ r.kind = "zip"
        /\ store' = Save(r.destPath, [content |-> r.content, source |-> r.source])
        /\ hist' = Logged(r)
        /\ IF pos = 0
           THEN /\ Respond("upload", 200, 0, done)
                /\ reqs' = [reqs EXCEPT ![i] = Idle]
           ELSE /\ reqs' = [reqs EXCEPT ![i] =
                       [kind |-> "zipscan", title |-> r.title, season |-> r.season,
                        source |-> r.source, content |-> r.content,
                        entries |-> r.entries, pos |-> pos, uploaded |-> done]]
                /\ UNCHANGED resp
        /\ UNCHANGED <<deleted, codec, catalog, asked, gate>>

\* archive: bucket.getFiles and the version of the next entry
ZipScan(i) ==
    LET r == reqs[i]
    IN  /\ r.kind = "zipscan"
        /\ reqs' = [reqs EXCEPT ![i] =
               Scanned("zip", r.title, r.season, r.source, r.content,
                       extractEpisodeNumber(r.entries[r.pos]), r.entries, r.pos, r.uploaded)]
        /\ UNCHANGED <<store, resp, hist, deleted, codec, catalog, asked, gate>>

\* mutant: the failure undoes what the request has stored
UploadStoreErrorRollback(i) ==
    /\ reqs[i].kind \in {"upload", "zip", "zipscan"}
    /\ Respond("upload", 500, 0, <<>>)
    /\ store' = [k \in {j \in DOMAIN store :
                        \A n \in 1..Len(reqs[i].uploaded) :
                            j # DestDir(reqs[i].title, reqs[i].season) \o Slash
                                    \o reqs[i].uploaded[n].filename}
                    |-> store[k]]
    /\ reqs' = [reqs EXCEPT ![i] = Idle]
    /\ UNCHANGED <<hist, deleted, codec, catalog, asked, gate>>

\* mutant: the failure is swallowed and the upload answers success
UploadStoreErrorSwallowed(i) ==
    /\ reqs[i].kind \in {"upload", "zip", "zipscan"}
    /\ Respond("upload", 200, 0, reqs[i].uploaded)
    /\ reqs' = [reqs EXCEPT ![i] = Idle]
    /\ UNCHANGED <<store, hist, deleted, codec, catalog, asked, gate>>

\* a store operation of the upload rejects: the catch block answers 500
UploadStoreError(i) ==
    /\ reqs[i].kind \in {"upload", "zip", "zipscan"}
    /\ Respond("upload", 500, 0, <<>>)
    /\ reqs' = [reqs EXCEPT ![i] = Idle]
    /\ UNCHANGED <<store, hist, deleted, codec, catalog, asked, gate>>

(***************************************************************************)
(* DELETE /clear-all, /shows/:show, /shows/:show/:season,                  *)
(* /shows/:show[/:season]/episode/:episode                                 *)
(***************************************************************************)
\* `${ep}` for ep = parseInt(text, 10)
ParsedText(text) ==
    IF ParseInt(text).nan THEN <<"N", "a", "N">> ELSE NumToString(ParseInt(text).n)

\* mutant: the season prefix lacks its closing "/"
BulkPrefixOpenSeason(scope, show, season, episode) ==
    LET safeShow == sanitise(show)
        safeSeason == SeasonTag \o sanitise(season)
    IN  IF scope = "clear-all" THEN ShowsRoot \o Slash
        ELSE IF scope = "show" THEN ShowsRoot \o Slash \o safeShow \o Slash
        ELSE IF scope = "season" THEN ShowsRoot \o Slash \o safeShow \o Slash \o safeSeason
        ELSE IF season = Absent
             THEN ShowsRoot \o Slash \o safeShow \o Slash \o ParsedText(episode) \o <<"_", "v">>
        ELSE ShowsRoot \o Slash \o safeShow \o Slash \o safeSeason \o Slash
                 \o ParsedText(episode) \o <<"_", "v">>

\* mutant: the show prefix lacks its closing "/"
BulkPrefixOpenShow(scope, show, season, episode) ==
    LET safeShow == sanitise(show)
        safeSeason == SeasonTag \o sanitise(season)
    IN  IF scope = "clear-all" THEN ShowsRoot \o Slash
        ELSE IF scope = "show" THEN ShowsRoot \o Slash \o safeShow
        ELSE IF scope = "season"
             THEN ShowsRoot \o Slash \o safeShow \o Slash \o safeSeason \o Slash
        ELSE IF season = Absent
             THEN ShowsRoot \o Slash \o safeShow \o Slash \o ParsedText(episode) \o <<"_", "v">>
        ELSE ShowsRoot \o Slash \o safeShow \o Slash \o safeSeason \o Slash
                 \o ParsedText(episode) \o <<"_", "v">>

\* the prefix each bulk delete route hands to deleteFilesByPrefix
BulkPrefix(scope, show, season, episode) ==
    LET safeShow == sanitise(show)
        safeSeason == SeasonTag \o sanitise(season)
    IN  IF scope = "clear-all" THEN ShowsRoot \o Slash
        ELSE IF scope = "show" THEN ShowsRoot \o Slash \o safeShow \o Slash
        ELSE IF scope = "season"
             THEN ShowsRoot \o Slash \o safeShow \o Slash \o safeSeason \o Slash
        ELSE IF season = Absent
             THEN ShowsRoot \o Slash \o safeShow \o Slash \o ParsedText(episode) \o <<"_", "v">>
        ELSE ShowsRoot \o Slash \o safeShow \o Slash \o safeSeason \o Slash
                 \o ParsedText(episode) \o <<"_", "v">>

\* mutant: a bulk delete that lists nothing answers 404, as the exact-version delete does
BulkStartNotFound(U, i) ==
    \E scope \in U.scopes, show \in U.titles, season \in U.seasons,
       episode \in U.episodes :
        LET prefix == BulkPrefix(scope, show, season, episode)
            files == getFiles(prefix)
        IN  /\ Accepts(U)
            /\ Admitted(U)
            /\ scope = "season" => season # Absent
            /\ scope \in {"clear-all", "show"} => season = Absent
            /\ IF files = {}
               THEN /\ Respond(scope, 404, 0, <<>>)
                    /\ UNCHANGED reqs
               ELSE /\ Start(U, i, [kind |-> "bulk", scope |-> scope, show |-> show,
                                    season |-> season, prefix |-> prefix,
                                    before |-> store, files |-> files, pending |-> files,
                                    failed |-> FALSE])
                    /\ UNCHANGED resp
            /\ asked' = [scope |-> scope, show |-> show, season |-> season,
                         episode |-> episode, version |-> <<>>]
            /\ UNCHANGED <<store, hist, deleted, codec, catalog>>

\* deleteFilesByPrefix: the listing; every file.delete() is started at once.
\* With nothing listed Promise.all resolves at once and the route answers 0.
BulkStart(U, i) ==
    \E scope \in U.scopes, show \in U.titles, season \in U.seasons,
       episode \in U.episodes :
        LET prefix == BulkPrefix(scope, show, season, episode)
            files == getFiles(prefix)
        IN  /\ Accepts(U)
            /\ Admitted(U)
            /\ scope = "season" => season # Absent
            /\ scope \in {"clear-all", "show"} => season = Absent
            /\ IF files = {}
               THEN /\ Respond(scope, 200, 0, <<>>)
                    /\ UNCHANGED reqs
               ELSE /\ Start(U, i, [kind |-> "bulk", scope |-> scope, show |-> show,
                                    season |-> season, prefix |-> prefix,
                                    before |-> store, files |-> files, pending |-> files,
                                    failed |-> FALSE])
                    /\ UNCHANGED resp
            /\ asked' = [scope |-> scope, show |-> show, season |-> season,
                         episode |-> episode, version |-> <<>>]
            /\ UNCHANGED <<store, hist, deleted, codec, catalog>>

\* the request once one more file.delete() has settled
BulkSettled(r, key) ==
    IF r.pending = {key} THEN Idle ELSE [r EXCEPT !.pending = r.pending \ {key}]

\* mutant: the delete removes whatever is under the prefix when it runs
BulkDeleteOneByPrefix(i) ==
    \E key \in (IF reqs[i].kind = "bulk" THEN reqs[i].pending ELSE {}) :
        LET r == reqs[i]
        IN  /\ key \in DOMAIN store
            /\ store' = [k \in {j \in DOMAIN store : j # key /\ ~StartsWith(j, r.prefix)}
                            |-> store[k]]
            /\ deleted' = TRUE
            /\ reqs' = [reqs EXCEPT ![i] = BulkSettled(r, key)]
            /\ IF r.pending = {key} /\ ~r.failed
               THEN Respond(r.scope, 200, Cardinality(r.files), <<>>)
               ELSE UNCHANGED resp
            /\ UNCHANGED <<hist, codec, catalog, asked, gate>>

\* one file.delete() succeeds; Promise.all resolves with the last one and
\* the route answers files.length
BulkDeleteOne(i) ==
    \E key \in (IF reqs[i].kind = "bulk" THEN reqs[i].pending ELSE {}) :
        LET r == reqs[i]
        IN  /\ key \in DOMAIN store
            /\ store' = Remove(key)
            /\ deleted' = TRUE
            /\ reqs' = [reqs EXCEPT ![i] = BulkSettled(r, key)]
            /\ IF r.pending = {key} /\ ~r.failed
               THEN Respond(r.scope, 200, Cardinality(r.files), <<>>)
               ELSE UNCHANGED resp
            /\ UNCHANGED <<hist, codec, catalog, asked, gate>>

\* mutant: a failed delete restores the objects the request has deleted
BulkDeleteFailRollback(i) ==
    \E key \in (IF reqs[i].kind = "bulk" THEN reqs[i].pending ELSE {}) :
        LET r == reqs[i]
        IN  /\ reqs' = [reqs EXCEPT ![i] = BulkSettled([r EXCEPT !.failed = TRUE], key)]
            /\ IF ~r.failed
               THEN Respond(r.scope, 500, 0, <<>>)
               ELSE UNCHANGED resp
            /\ store' = r.before
            /\ UNCHANGED <<hist, deleted, codec, catalog, asked, gate>>

\* one file.delete() rejects (the object is gone, or the store fails):
\* Promise.all rejects with the first rejection and the route answers 500,
\* while the deletes already started still settle
BulkDeleteFail(i) ==
    \E key \in (IF reqs[i].kind = "bulk" THEN reqs[i].pending ELSE {}) :
        LET r == reqs[i]
        IN  /\ reqs' = [reqs EXCEPT ![i] = BulkSettled([r EXCEPT !.failed = TRUE], key)]
            /\ IF ~r.failed
               THEN Respond(r.scope, 500, 0, <<>>)
               ELSE UNCHANGED resp
            /\ UNCHANGED <<store, hist, deleted, codec, catalog, asked, gate>>

(***************************************************************************)
(* DELETE /shows/:show[/:season]/episode/:episode/version/:version         *)
(***************************************************************************)
VersionPrefix(show, season, episode, version) ==
    ShowsRoot \o Slash \o sanitise(show) \o Slash
        \o (IF season # Absent THEN SeasonTag \o sanitise(season) \o Slash ELSE <<>>)
        \o ParsedText(episode) \o <<"_", "v">> \o ParsedText(version) \o <<"_">>

\* the listing; 404 when it is empty
VersionStart(U, i) ==
    \E show \in U.titles, season \in U.seasons, episode \in U.episodes,
       version \in U.versions :
        LET prefix == VersionPrefix(show, season, episode, version)
            files == getFiles(prefix)
        IN  /\ Accepts(U)
            /\ Admitted(U)
            /\ IF files = {}
               THEN /\ Respond("version", 404, 0, <<>>)
                    /\ UNCHANGED reqs
               ELSE /\ Start(U, i, [kind |-> "one", prefix |-> prefix, before |-> store,
                                    files |-> files, key |-> FirstFile(files)])
                    /\ UNCHANGED resp
            /\ asked' = [scope |-> "version", show |-> show, season |-> season,
                         episode |-> episode, version |-> version]
            /\ UNCHANGED <<store, hist, deleted, codec, catalog>>

\* files[0].delete() succeeds
VersionDelete(i) ==
    /\ reqs[i].kind = "one"
    /\ reqs[i].key \in DOMAIN store
    /\ store' = Remove(reqs[i].key)
    /\ deleted' = TRUE
    /\ Respond("version", 200, 0, <<>>)
    /\ reqs' = [reqs EXCEPT ![i] = Idle]
    /\ UNCHANGED <<hist, codec, catalog, asked, gate>>

\* files[0].delete() rejects
VersionDeleteFail(i) ==
    /\ reqs[i].kind = "one"
    /\ Respond("version", 500, 0, <<>>)
    /\ reqs' = [reqs EXCEPT ![i] = Idle]
    /\ UNCHANGED <<store, hist, deleted, codec, catalog, asked, gate>>

(***************************************************************************)
(* GET /list (JSON).  The value built for a show is a JavaScript object or *)
(* array: `isArray` tells which, `eps` are the elements of the array and   *)
(* `seasons` the properties named by a season label (an array can carry    *)
(* such properties, which JSON.stringify leaves out).                      *)
(***************************************************************************)
\* shows[show] = {}
EmptyShow == [isArray |-> FALSE, eps |-> <<>>, seasons |-> EmptyStore]

\* shows[show] = []
EmptyArray == [isArray |-> TRUE, eps |-> <<>>, seasons |-> EmptyStore]

\* obj[k] = v
Put(obj, k, v) == [x \in DOMAIN obj \cup {k} |-> IF x = k THEN v ELSE obj[x]]

\* find(e => e.episode === episode), a new epObj pushed if there is none, then
\* epObj.versions.push(info)
PushVersion(eps, episode, info) ==
    LET found == {n \in 1..Len(eps) : eps[n].episode = episode}
    IN  IF found = {}
        THEN Append(eps, [episode |-> episode, versions |-> <<info>>])
        ELSE LET n == CHOOSE m \in found : \A q \in found : m <= q
             IN  [eps EXCEPT ![n].versions = Append(@, info)]

\* one iteration of `for (const file of files)`
CatalogStep(shows, name) ==
    LET parts == Split(name, Slash)
    IN  IF Len(parts) < 3 THEN shows
        ELSE
          LET show == parts[2]
              listed == IF show \in DOMAIN shows THEN shows ELSE Put(shows, show, EmptyShow)
              filename == parts[Len(parts)]
              parsed == parseVersionedFilename(filename)
              info == [version |-> parsed.version, source |-> parsed.source,
                       filename |-> filename]
          IN  IF ~parsed.ok THEN listed
              ELSE IF Len(parts) = 3
                   THEN LET cur == IF listed[show].isArray THEN listed[show] ELSE EmptyArray
                        IN  Put(listed, show,
                                [cur EXCEPT !.eps = PushVersion(@, parsed.episode, info)])
              ELSE IF Len(parts) = 4 /\ StartsWith(parts[3], SeasonTag)
                   THEN LET season == parts[3]
                            cur == listed[show]
                            eps == IF season \in DOMAIN cur.seasons THEN cur.seasons[season]
                                   ELSE <<>>
                        IN  Put(listed, show,
                                [cur EXCEPT !.seasons =
                                     Put(@, season, PushVersion(eps, parsed.episode, info))])
              ELSE listed

\* the grouping loop over the listing
RECURSIVE Grouped(_)
Grouped(order) ==
    IF order = <<>> THEN EmptyStore
    ELSE CatalogStep(Grouped(SubSeq(order, 1, Len(order) - 1)), order[Len(order)])

\* mutant: the versions stay in listing order
SortVersionsNot(versions) == versions

\* versions.sort((a, b) => a.version - b.version): ascending and stable
RECURSIVE SortVersions(_)
SortVersions(versions) ==
    IF versions = <<>> THEN <<>>
    ELSE LET v == versions[Len(versions)]
             sorted == SortVersions(SubSeq(versions, 1, Len(versions) - 1))
             n == Cardinality({m \in 1..Len(sorted) : sorted[m].version <= v.version})
         IN  SubSeq(sorted, 1, n) \o <<v>> \o SubSeq(sorted, n + 1, Len(sorted))

\* forEach(ep => ep.versions.sort(...))
SortEpisodes(eps) == [n \in 1..Len(eps) |-> [eps[n] EXCEPT !.versions = SortVersions(@)]]

\* the sorting loop: the elements of an array, the properties of an object
SortCatalog(shows) ==
    [show \in DOMAIN shows |->
        IF shows[show].isArray
        THEN [shows[show] EXCEPT !.eps = SortEpisodes(@)]
        ELSE [shows[show] EXCEPT
                 !.seasons = [season \in DOMAIN @ |-> SortEpisodes(@[season])]]]

\* res.json({ shows }): an array is serialised as the sequence of its elements,
\* an object as the mapping of its properties
ToJson(shows) ==
    [show \in DOMAIN shows |->
        IF shows[show].isArray
        THEN [shape |-> "sequence", eps |-> shows[show].eps, seasons |-> EmptyStore]
        ELSE [shape |-> "mapping", eps |-> <<>>, seasons |-> shows[show].seasons]]

BuildCatalog(order) == ToJson(SortCatalog(Grouped(order)))

\* the orders in which the store can list a set of object names
Listings(names) ==
    {order \in [1..Cardinality(names) -> names] :
        \A m, n \in 1..Cardinality(names) : m # n => order[m] # order[n]}

\* the JSON catalog of the objects under "shows/"
List(U) ==
    \E order \in Listings(getFiles(ShowsRoot \o Slash)) :
        /\ Accepts(U)
        /\ catalog' = [order |-> order, shows |-> BuildCatalog(order)]
        /\ Respond("list", 200, 0, <<>>)
        /\ UNCHANGED <<store, reqs, hist, deleted, codec, asked, gate>>

(***************************************************************************)
(* GET /list (JSON) step by step: the key scan, then one metadata read for *)
(* each listed object the builder accepts, then the answer.                *)
(***************************************************************************)
\* bucket.getFiles({ prefix: 'shows/' })
ListStart(U, i) ==
    \E order \in Listings(getFiles(ShowsRoot \o Slash)) :
        /\ Start(U, i, [kind |-> "list", order |-> order, pos |-> 1])
        /\ UNCHANGED <<store, resp, hist, deleted, codec, catalog, asked, gate>>

\* the loop reaches file.getMetadata() for this object name
ReadsMetadata(name) ==
    /\ Len(Split(name, Slash)) >= 3
    /\ parseVersionedFilename(Last(Split(name, Slash))).ok

\* mutant: an object that is gone is skipped
ListMetaSkipsMissing(i) ==
    /\ reqs[i].kind = "list"
    /\ reqs[i].pos <= Len(reqs[i].order)
    /\ reqs' = [reqs EXCEPT ![i].pos = @ + 1]
    /\ UNCHANGED <<store, resp, hist, deleted, codec, catalog, asked, gate>>

\* one iteration of the loop: file.getMetadata() rejects when the object
\* is no longer stored, and the catch block answers 500
ListMeta(i) ==
    /\ reqs[i].kind = "list"
    /\ reqs[i].pos <= Len(reqs[i].order)
    /\ IF ReadsMetadata(reqs[i].order[reqs[i].pos])
          /\ reqs[i].order[reqs[i].pos] \notin DOMAIN store
       THEN /\ Respond("list", 500, 0, <<>>)
            /\ reqs' = [reqs EXCEPT ![i] = Idle]
       ELSE /\ reqs' = [reqs EXCEPT ![i].pos = @ + 1]
            /\ UNCHANGED resp
    /\ UNCHANGED <<store, hist, deleted, codec, catalog, asked, gate>>

\* the sorting loop and res.json({ shows })
ListEnd(i) ==
    /\ reqs[i].kind = "list"
    /\ reqs[i].pos > Len(reqs[i].order)
    /\ catalog' = [order |-> reqs[i].order, shows |-> BuildCatalog(reqs[i].order)]
    /\ Respond("list", 200, 0, <<>>)
    /\ reqs' = [reqs EXCEPT ![i] = Idle]
    /\ UNCHANGED <<store, hist, deleted, codec, asked, gate>>

Listing(U) ==
    \/ \E i \in Slots : ListStart(U, i)
    \/ \E i \in Slots : ListMeta(i)
    \/ \E i \in Slots : ListEnd(i)

(***************************************************************************)
(* GET /subtitles/:title[/:season]/:episode/:version                       *)
(***************************************************************************)
RespondBody(op, status, body) ==
    resp' = [op |-> op, status |-> status, count |-> 0, uploaded |-> <<>>, body |-> body]

\* `shows/${safeTitle}/[${safeSeason}/]${episode}_v${version}_`: the episode
\* and the version are the texts of the request
FetchPrefix(title, season, episode, version) ==
    ShowsRoot \o Slash \o sanitise(title) \o Slash
        \o (IF season # Absent THEN SeasonTag \o sanitise(season) \o Slash ELSE <<>>)
        \o episode \o <<"_", "v">> \o version \o <<"_">>

\* mutant: the listing is not narrowed to the version
FetchPrefixAnyVersion(title, season, episode, version) ==
    ShowsRoot \o Slash \o sanitise(title) \o Slash
        \o (IF season # Absent THEN SeasonTag \o sanitise(season) \o Slash ELSE <<>>)
        \o episode \o <<"_", "v">>

\* the listing, 404 when it is empty, else the bytes of files[0]
Fetch(U) ==
    \E title \in U.titles, season \in U.seasons, episode \in U.episodes,
       version \in U.versions :
        LET files == getFiles(FetchPrefix(title, season, episode, version))
        IN  /\ Accepts(U)
            /\ IF files = {}
               THEN RespondBody("fetch", 404, <<>>)
               ELSE RespondBody("fetch", 200, <<[bytes |-> store[FirstFile(files)].content]>>)
            /\ asked' = [scope |-> "fetch", show |-> title, season |-> season,
                         episode |-> episode, version |-> version]
            /\ UNCHANGED <<store, reqs, hist, deleted, codec, catalog, gate>>

(***************************************************************************)
(* GET /versions/:title[/:season]/:episode                                 *)
(***************************************************************************)
\* `shows/${safeTitle}/[${safeSeason}/]${episode}_v`
VersionsPrefix(title, season, episode) ==
    ShowsRoot \o Slash \o sanitise(title) \o Slash
        \o (IF season # Absent THEN SeasonTag \o sanitise(season) \o Slash ELSE <<>>)
        \o episode \o <<"_", "v">>

\* the loop over the listed files and the sort
VersionEntries(order, episode) ==
    LET parsedOf(name) == parseVersionedFilename(Last(Split(name, Slash)))
        kept(name) == /\ parsedOf(name).ok
                      /\ ~ParseInt(episode).nan
                      /\ parsedOf(name).episode = ParseInt(episode).n
        names == SelectSeq(order, kept)
    IN  SortVersions([n \in 1..Len(names) |->
                         [version |-> parsedOf(names[n]).version,
                          source |-> parsedOf(names[n]).source,
                          filename |-> Last(Split(names[n], Slash))]])

Versions(U) ==
    \E title \in U.titles, season \in U.seasons, episode \in U.episodes :
        \E order \in Listings(getFiles(VersionsPrefix(title, season, episode))) :
            /\ Accepts(U)
            /\ RespondBody("versions", 200, VersionEntries(order, episode))
            /\ asked' = [scope |-> "versions", show |-> title, season |-> season,
                         episode |-> episode, version |-> <<>>]
            /\ UNCHANGED <<store, reqs, hist, deleted, codec, catalog, gate>>

(***************************************************************************)
(* The unversioned server: POST /upload of a single .srt                   *)
(***************************************************************************)
\* `shows/${safeTitle}[/season-${...}]/${episode}.srt`, no API key asked
LegacyUpload(U) ==
    \E target \in U.targets, episode \in U.episodes, content \in U.bytes :
        /\ Accepts(U)
        /\ store' = Save(DestDir(target[1], target[2]) \o Slash \o episode \o DotSrt,
                         [content |-> content, source |-> Absent])
        /\ Respond("legacy", 200, 0, <<>>)
        /\ UNCHANGED <<reqs, hist, deleted, codec, catalog, asked, gate>>

(***************************************************************************)
(* HEAD /subtitles/:title[/:season]/:episode and the router                *)
(***************************************************************************)
\* the routes under /subtitles in the order they are registered, by the
\* number of their path parameters
SubtitleRoutes ==
    <<[method |-> "get", params |-> 3, handler |-> "fetch"],
      [method |-> "get", params |-> 4, handler |-> "fetchSeason"],
      [method |-> "head", params |-> 2, handler |-> "exists"],
      [method |-> "head", params |-> 3, handler |-> "existsSeason"]>>

\* mutant: a route serves only the method it was registered with
HandlesOwnMethod(route, method) == route.method = method

\* a route registered with app.get also serves HEAD requests
Handles(route, method) ==
    route.method = method \/ (method = "head" /\ route.method = "get")

\* the handler of the first registered route that matches the request
Dispatch(method, params) ==
    LET matching == {n \in 1..Len(SubtitleRoutes) :
                        /\ SubtitleRoutes[n].params = params
                        /\ Handles(SubtitleRoutes[n], method)}
    IN  IF matching = {} THEN "none"
        ELSE SubtitleRoutes[CHOOSE n \in matching : \A m \in matching : n <= m].handler

\* `shows/${safeTitle}/[${safeSeason}/]${ep}_v` with ep = parseInt(episode, 10)
ExistsPrefix(title, season, episode) ==
    ShowsRoot \o Slash \o sanitise(title) \o Slash
        \o (IF season # Absent THEN SeasonTag \o sanitise(season) \o Slash ELSE <<>>)
        \o ParsedText(episode) \o <<"_", "v">>

\* a HEAD request with two or three path segments after /subtitles
HeadRequest(U) ==
    \E title \in U.titles, season \in U.seasons, episode \in U.episodes :
        LET handler == Dispatch("head", IF season = Absent THEN 2 ELSE 3)
            status ==
                IF handler \in {"exists", "existsSeason"}
                THEN IF ParseInt(episode).nan THEN 400
                     ELSE IF getFiles(ExistsPrefix(title, season, episode)) # {} THEN 200
                     ELSE 404
                ELSE IF getFiles(FetchPrefix(title, Absent, season, episode)) # {} THEN 200
                ELSE 404
        IN  /\ Accepts(U)
            /\ Respond("head", status, 0, <<>>)
            /\ asked' = [scope |-> "head", show |-> title, season |-> season,
                         episode |-> episode, version |-> <<>>]
            /\ UNCHANGED <<store, reqs, hist, deleted, codec, catalog, gate>>

(***************************************************************************)
(* Store failures before a request has changed anything.                   *)
(***************************************************************************)
\* the first bucket.getFiles of a route (or, in the listing routes, a
\* file.getMetadata) rejects: the catch block of the route answers 500
ListFail(U) ==
    \E op \in {"upload", "version", "fetch", "versions", "list"} \cup U.scopes :
        /\ Accepts(U)
        /\ IF op \in {"fetch", "versions", "list"} THEN UNCHANGED gate ELSE Admitted(U)
        /\ Respond(op, 500, 0, <<>>)
        /\ UNCHANGED <<store, reqs, hist, deleted, codec, catalog, asked>>

(***************************************************************************)
(* Specifications.                                                         *)
(***************************************************************************)
Uploads(U) ==
    \/ UploadReject(U)
    \/ \E i \in Slots : UploadScan(U, i)
    \/ \E i \in Slots : UploadSave(i)

ArchiveUploads(U) ==
    \/ \E i \in Slots : ZipStart(U, i)
    \/ \E i \in Slots : ZipSave(i)
    \/ \E i \in Slots : ZipScan(i)

BulkDeletes(U) ==
    \/ \E i \in Slots : BulkStart(U, i)
    \/ \E i \in Slots : BulkDeleteOne(i)

VersionDeletes(U) ==
    \/ \E i \in Slots : VersionStart(U, i)
    \/ \E i \in Slots : VersionDelete(i)

\* store operations that reject
StoreErrors ==
    \/ \E i \in Slots : UploadStoreError(i)
    \/ \E i \in Slots : BulkDeleteFail(i)
    \/ \E i \in Slots : VersionDeleteFail(i)

\* requests one after another: version allocation
Next ==
    \/ Uploads(AllocInputs)
    \/ ArchiveUploads(AllocInputs)
    \/ BulkDeletes(AllocInputs)
    \/ VersionDeletes(AllocInputs)

Spec == Init /\ [][Next]_vars

\* requests one after another: scopes of the deletes
NextScope ==
    \/ Uploads(ScopeInputs)
    \/ BulkDeletes(ScopeInputs)
    \/ VersionDeletes(ScopeInputs)

SpecScope == Init /\ [][NextScope]_vars

\* overlapping requests
NextRace == Uploads(RaceInputs) \/ BulkDeletes(RaceInputs)

SpecRace == Init /\ [][NextRace]_vars

\* requests one after another: episode and exact-version deletes.  The store
\* starts empty or with versions 1 and 11 of the season-less episode 1 (what
\* eleven uploads and the deletes of versions 2..10 leave).
ManyVersions ==
    LET obj == [content |-> "x", source |-> <<"a">>]
        key(version) == DestDir(<<"F">>, Absent) \o Slash
                            \o buildVersionedFilename(JsNumber(1), version, <<"a">>)
    IN  [k \in {key(1), key(11)} |-> obj]

InitExact ==
    /\ store \in {EmptyStore, ManyVersions}
    /\ reqs = [i \in Slots |-> Idle]
    /\ resp = NoResp
    /\ hist = EmptyStore
    /\ deleted = FALSE
    /\ codec = <<>>
    /\ catalog = NoCatalog
    /\ asked = NoAsk
    /\ gate = NoGate

NextExact ==
    \/ Uploads(ExactInputs)
    \/ BulkDeletes(ExactInputs)
    \/ VersionDeletes(ExactInputs)

SpecExact == InitExact /\ [][NextExact]_vars

\* requests one after another, with store operations that reject
NextFail ==
    \/ Uploads(FailInputs)
    \/ BulkDeletes(FailInputs)
    \/ VersionDeletes(FailInputs)
    \/ StoreErrors
    \/ ListFail(FailInputs)

SpecFail == Init /\ [][NextFail]_vars

\* requests one after another: uploads and JSON listings
NextList == Uploads(ListInputs) \/ List(ListInputs)

SpecList == Init /\ [][NextList]_vars

\* a deployment has API_KEY set to "k" or leaves it unset
InitGate ==
    /\ store = EmptyStore
    /\ reqs = [i \in Slots |-> Idle]
    /\ resp = NoResp
    /\ hist = EmptyStore
    /\ deleted = FALSE
    /\ codec = <<>>
    /\ catalog = NoCatalog
    /\ asked = NoAsk
    /\ gate \in {[NoGate EXCEPT !.apiKey = apiKey] : apiKey \in {Absent, <<"k">>}}

\* writes with and without the key, reads without it
NextGate ==
    \/ \E i \in Slots : UploadScan(GateInputs, i)
    \/ \E i \in Slots : UploadSave(i)
    \/ BulkDeletes(GateInputs)
    \/ GateReject(GateInputs)
    \/ LegacyUpload(GateInputs)
    \/ Fetch(GateInputs)
    \/ Versions(GateInputs)
    \/ List(GateInputs)

SpecGate == InitGate /\ [][NextGate]_vars

\* requests one after another: uploads to valid and invalid addresses
NextAddress == Uploads(AddressInputs)

SpecAddress == Init /\ [][NextAddress]_vars

\* requests one after another: uploads and existence checks
NextHead == Uploads(HeadInputs) \/ HeadRequest(HeadInputs)

SpecHead == Init /\ [][NextHead]_vars

\* requests one after another: uploads, the catalog, and the reads and
\* deletes that address what it reports
NextCatalog ==
    \/ Uploads(CatalogInputs)
    \/ List(CatalogInputs)
    \/ Fetch(CatalogInputs)
    \/ Versions(CatalogInputs)
    \/ BulkDeletes(CatalogInputs)
    \/ VersionDeletes(CatalogInputs)

SpecCatalog == Init /\ [][NextCatalog]_vars

\* requests one after another: uploads to neighbouring addresses
NextFrame == Uploads(FrameInputs) \/ ArchiveUploads(FrameInputs)

SpecFrame == Init /\ [][NextFrame]_vars

\* archive uploads whose store operations can fail
NextArchiveFail ==
    \/ ArchiveUploads(FrameInputs)
    \/ \E i \in Slots : UploadStoreError(i)

SpecArchiveFail == Init /\ [][NextArchiveFail]_vars

\* overlapping requests: uploads, a show delete and catalog listings
NextListRace ==
    \/ Uploads(ListRaceInputs)
    \/ BulkDeletes(ListRaceInputs)
    \/ Listing(ListRaceInputs)

SpecListRace == Init /\ [][NextListRace]_vars

\* reads of what the two servers stored
NextRead ==
    \/ Uploads(ReadInputs)
    \/ VersionDeletes(ReadInputs)
    \/ LegacyUpload(ReadInputs)
    \/ Fetch(ReadInputs)
    \/ Versions(ReadInputs)

SpecRead == Init /\ [][NextRead]_vars

(***************************************************************************)
(* The leaf codec on its own: an address is encoded, the leaf is decoded.  *)
(***************************************************************************)
CodecEpisodes == {1, 12}
CodecVersions == {1, 10}
CodecChars == {"a", "_", "v", "1"}
CodecSources == UNION {[1..n -> CodecChars] : n \in 1..MaxSrcLen}

InitCodec ==
    /\ store = EmptyStore
    /\ reqs = [i \in Slots |-> Idle]
    /\ resp = NoResp
    /\ hist = EmptyStore
    /\ deleted = FALSE
    /\ codec \in [phase : {"address"}, episode : CodecEpisodes, version : CodecVersions,
                  source : CodecSources, leaf : {<<>>}, parsed : {NoParse}]
    /\ catalog = NoCatalog
    /\ asked = NoAsk
    /\ gate = NoGate

CodecBuild ==
    /\ codec.phase = "address"
    /\ codec' = [codec EXCEPT
                   !.phase = "built",
                   !.leaf = buildVersionedFilename(JsNumber(codec.episode), codec.version,
                                                   codec.source)]
    /\ UNCHANGED <<store, reqs, resp, hist, deleted, catalog, asked, gate>>

CodecParse ==
    /\ codec.phase = "built"
    /\ codec' = [codec EXCEPT !.phase = "parsed", !.parsed = parseVersionedFilename(codec.leaf)]
    /\ UNCHANGED <<store, reqs, resp, hist, deleted, catalog, asked, gate>>

NextCodec == CodecBuild \/ CodecParse

SpecCodec == InitCodec /\ [][NextCodec]_vars

(***************************************************************************)
(* The decoder on leaves of any shape.                                     *)
(***************************************************************************)
LeafEpisodes == {<<"1">>, <<"1", "2">>, <<"1", "x">>, <<"x">>, <<>>}
LeafVersions == {<<"2">>, <<"2", "x">>, <<"x">>}
LeafSources == {<<"a">>, <<"a", "_", "b">>, <<>>}
LeafSuffixes == {DotSrt, <<>>, <<".", "t", "x", "t">>}

Leaves ==
    {e \o <<"_", "v">> \o v \o <<"_">> \o src \o x :
        e \in LeafEpisodes, v \in LeafVersions, src \in LeafSources, x \in LeafSuffixes}
      \cup {OneSrt}

InitLeaf ==
    /\ store = EmptyStore
    /\ reqs = [i \in Slots |-> Idle]
    /\ resp = NoResp
    /\ hist = EmptyStore
    /\ deleted = FALSE
    /\ codec \in [phase : {"built"}, episode : {0}, version : {0}, source : {<<>>},
                  leaf : Leaves, parsed : {NoParse}]
    /\ catalog = NoCatalog
    /\ asked = NoAsk
    /\ gate = NoGate

NextLeaf == CodecParse

SpecLeaf == InitLeaf /\ [][NextLeaf]_vars

(***************************************************************************)
(* sanitise on its own: a text is sanitised, then the result is.           *)
(***************************************************************************)
SlugAlphabet == {"F", "a", "1", " ", "-", "/", "!", "_"}
SlugTexts == UNION {[1..n -> SlugAlphabet] : n \in 0..MaxTextLen}

InitSlug ==
    /\ store = EmptyStore
    /\ reqs = [i \in Slots |-> Idle]
    /\ resp = NoResp
    /\ hist = EmptyStore
    /\ deleted = FALSE
    /\ codec \in [phase : {"text"}, text : SlugTexts, once : {<<>>}, twice : {<<>>}]
    /\ catalog = NoCatalog
    /\ asked = NoAsk
    /\ gate = NoGate

Sanitise ==
    /\ codec.phase = "text"
    /\ codec' = [codec EXCEPT !.phase = "once", !.once = sanitise(codec.text)]
    /\ UNCHANGED <<store, reqs, resp, hist, deleted, catalog, asked, gate>>

SanitiseAgain ==
    /\ codec.phase = "once"
    /\ codec' = [codec EXCEPT !.phase = "twice", !.twice = sanitise(codec.once)]
    /\ UNCHANGED <<store, reqs, resp, hist, deleted, catalog, asked, gate>>

NextSlug == Sanitise \/ SanitiseAgain

SpecSlug == InitSlug /\ [][NextSlug]_vars

(***************************************************************************)
(* Properties.                                                             *)
(***************************************************************************)
\* the uploads between their scan and their save
Saving == {i \in Slots : reqs[i].kind \in {"upload", "zip"}}

\* the version in an object name that starts with an episode prefix `.../<e>_v`
StoredVersion(key, prefix) == ParseInt(SubSeq(key, Len(prefix) + 1, Len(key))).n

\* the highest version stored under an episode prefix, 0 when there is none
HighestStored(prefix) == SetMax({StoredVersion(k, prefix) : k \in getFiles(prefix)})

\* C1: without deletions (and, under Spec, without overlapping requests), the
\* successive single-file uploads to one episode are assigned 1, 2, ..., n in
\* upload order, with an explicit episode as with a derived one.
C1_VersionsInUploadOrder ==
    ~deleted =>
        \A p \in DOMAIN hist :
            (\A n \in 1..Len(hist[p]) : hist[p][n].kind = "upload")
                => \A n \in 1..Len(hist[p]) : hist[p][n].version = n

\* C2: in every state reached by non-overlapping uploads and deletes, every
\* single-version prefix `shows/<show>/[season-<s>/]<episode>_v<version>_`
\* matches at most one stored object.
C2_OneObjectPerVersion ==
    \A target \in AllocInputs.targets, episode \in AllocInputs.episodes,
       version \in 1..MaxUploads :
        Cardinality(getFiles(VersionPrefix(target[1], target[2], episode,
                                           NumToString(version)))) <= 1

\* C3: without overlapping requests, an upload writes to an object name that
\* holds no object: it never overwrites a stored object.
C3_NeverOverwrites == \A i \in Saving : reqs[i].destPath \notin DOMAIN store

\* C4: for every positive episode and version and every non-empty source tag,
\* parseVersionedFilename(buildVersionedFilename(episode, version, source))
\* is exactly {episode, version, source}.
C4_RoundTrip ==
    codec # <<>> /\ codec.phase = "parsed" =>
        codec.parsed = [ok |-> TRUE, episode |-> codec.episode,
                        version |-> codec.version, source |-> codec.source]

\* C5: the version an upload is assigned is 1 plus the highest version among
\* the objects stored for its episode (1 when there is none), whatever the
\* source tags of those objects.
C5_NextAfterHighest ==
    \A i \in Saving : reqs[i].version = HighestStored(reqs[i].prefix) + 1

\* C6: when no version of an episode is stored (all were deleted, or none was
\* ever uploaded), the next upload to it is assigned version 1, however many
\* versions were assigned before.
C6_RestartsAtOne ==
    \A i \in Saving : getFiles(reqs[i].prefix) = {} => reqs[i].version = 1

\* versions 1 and 2 were assigned and deleted, and the upload after them got 1
C6_Witness ==
    \E p \in DOMAIN hist :
        /\ Len(hist[p]) = 3
        /\ hist[p][1].version = 1 /\ hist[p][2].version = 2 /\ hist[p][3].version = 1
        /\ deleted
        /\ Cardinality(getFiles(p)) = 1
        /\ resp.op = "upload" /\ resp.status = 200
        /\ resp.uploaded[Len(resp.uploaded)].version = 1

\* C7: once some but not all versions of an episode were deleted, a later
\* upload to it is never assigned a version number an earlier upload to it
\* received.  (The uploads of Spec all go to one episode, so `deleted` says
\* that a version of that episode was deleted.)
C7_NoReuseAfterPartialDelete ==
    \A i \in Saving :
        deleted /\ getFiles(reqs[i].prefix) # {} =>
            \A n \in 1..Len(Assigned(reqs[i].prefix)) :
                Assigned(reqs[i].prefix)[n].version # reqs[i].version

\* C8: two uploads to one episode whose scans both precede both saves are
\* assigned the same version; they write the same object name when their
\* sources are equal (one write replaces the other) and two names with the
\* same version number when their sources differ.
C8_SameScanSameVersion ==
    \A i, j \in Saving :
        i # j /\ reqs[i].prefix = reqs[j].prefix /\ reqs[i].files = reqs[j].files =>
            /\ reqs[i].version = reqs[j].version
            /\ (reqs[i].source = reqs[j].source) <=> (reqs[i].destPath = reqs[j].destPath)

\* two uploads were assigned version 1 and two stored objects carry it
C8_Witness ==
    \E p \in DOMAIN hist :
        /\ Len(hist[p]) = 2
        /\ hist[p][1].version = 1 /\ hist[p][2].version = 1
        /\ Cardinality(getFiles(p \o <<"1", "_">>)) = 2

\* the steps of the bulk delete in slot i
BulkStep(i) == reqs[i].kind = "bulk" /\ reqs'[i] # reqs[i]

\* the bulk delete in slot i answers success in this step
BulkDone(i) == BulkStep(i) /\ reqs'[i] = Idle /\ ~reqs[i].failed

\* C9: a prefix delete removes only the objects of its own listing and answers
\* their number, whatever an overlapping upload has written under the prefix
\* since the listing: such an object stays stored and is not counted.
C9_DeletesOnlyItsListing ==
    [][\A i \in Slots :
          BulkStep(i) =>
              /\ \A k \in DOMAIN store \ reqs[i].files :
                     k \in DOMAIN store' /\ store'[k] = store[k]
              /\ BulkDone(i) => resp'.status = 200 /\ resp'.count = Cardinality(reqs[i].files)
      ]_vars

\* an episode delete has just answered 1 while the object an overlapping
\* upload wrote under its prefix is stored
C9_Witness ==
    /\ resp.op = "episode" /\ resp.status = 200 /\ resp.count = 1
    /\ Busy = {}
    /\ \E p \in DOMAIN hist : Len(hist[p]) = 2 /\ Cardinality(getFiles(p)) = 1
    /\ Cardinality(DOMAIN store) = 1

\* the object names of season `season` of show `show`, by their segments
InSeason(key, show, season) ==
    LET parts == Split(key, Slash)
    IN  /\ Len(parts) = 4
        /\ parts[1] = ShowsRoot
        /\ parts[2] = sanitise(show)
        /\ parts[3] = SeasonTag \o sanitise(season)

\* C10: a season delete removes the objects of that season of that show and
\* leaves every other object as it was: season-less episodes, other seasons
\* (1 and 10) and other shows.
C10_SeasonDeleteScope ==
    [][\A i \in Slots :
          BulkStep(i) /\ reqs[i].scope = "season" =>
              LET r == reqs[i]
                  kept == {k \in DOMAIN r.before : ~InSeason(k, r.show, r.season)}
              IN  /\ \A k \in kept : k \in DOMAIN store' /\ store'[k] = r.before[k]
                  /\ BulkDone(i) => DOMAIN store' = kept /\ resp'.status = 200
      ]_vars

\* season 1 of show f was deleted; its season-less episode and its season 10 are stored
C10_Witness ==
    /\ resp.op = "season" /\ resp.status = 200 /\ resp.count = 1
    /\ Busy = {}
    /\ DOMAIN hist = {UploadPrefix(<<"F">>, Absent, JsNumber(1)),
                      UploadPrefix(<<"F">>, <<"1">>, JsNumber(1)),
                      UploadPrefix(<<"F">>, <<"1", "0">>, JsNumber(1))}
    /\ DOMAIN store = {DestDir(<<"F">>, Absent) \o Slash \o <<"1", "_", "v", "1", "_", "a">> \o DotSrt,
                       DestDir(<<"F">>, <<"1", "0">>) \o Slash \o <<"1", "_", "v", "1", "_", "a">> \o DotSrt}

\* the object names of show `show`, by their segments
InShow(key, show) ==
    LET parts == Split(key, Slash)
    IN  /\ Len(parts) >= 3
        /\ parts[1] = ShowsRoot
        /\ parts[2] = sanitise(show)

\* C11: a show delete removes every object of that show, season-less and of
\* every season, and leaves every object of any other show as it was, also of
\* a show whose name starts with the deleted show's name (f and fo).
C11_ShowDeleteScope ==
    [][\A i \in Slots :
          BulkStep(i) /\ reqs[i].scope = "show" =>
              LET r == reqs[i]
                  kept == {k \in DOMAIN r.before : ~InShow(k, r.show)}
              IN  /\ \A k \in kept : k \in DOMAIN store' /\ store'[k] = r.before[k]
                  /\ BulkDone(i) => DOMAIN store' = kept /\ resp'.status = 200
      ]_vars

\* show f was deleted with its season-less episode and its season 1; the
\* episode of show fo is stored
C11_Witness ==
    /\ resp.op = "show" /\ resp.status = 200 /\ resp.count = 2
    /\ Busy = {}
    /\ DOMAIN hist = {UploadPrefix(<<"F">>, Absent, JsNumber(1)),
                      UploadPrefix(<<"F">>, <<"1">>, JsNumber(1)),
                      UploadPrefix(<<"f", "o">>, <<"1">>, JsNumber(1))}
    /\ DOMAIN store = {DestDir(<<"f", "o">>, <<"1">>) \o Slash
                           \o <<"1", "_", "v", "1", "_", "a">> \o DotSrt}

\* the object name lies in the directory of (show, season) and its leaf
\* decodes to the episode (and, if given, the version) of the request
InEpisode(key, show, season, episode) ==
    LET parts == Split(key, Slash)
        parsed == parseVersionedFilename(Last(parts))
    IN  /\ parts[1] = ShowsRoot
        /\ parts[2] = sanitise(show)
        /\ IF season = Absent THEN Len(parts) = 3
           ELSE Len(parts) = 4 /\ parts[3] = SeasonTag \o sanitise(season)
        /\ parsed.ok
        /\ parsed.episode = ParseInt(episode).n

InVersion(key, show, season, episode, version) ==
    /\ InEpisode(key, show, season, episode)
    /\ parseVersionedFilename(Last(Split(key, Slash))).version = ParseInt(version).n

\* C12: an episode delete removes every stored version of that episode of
\* that (show, season) and nothing else: once it has answered, no object of
\* the episode is stored, and no step of it touches an object of another
\* episode (1, 11, 21), of another season or of the season-less scope.
C12_EpisodeDeleteScope ==
    /\ [](resp.op = "episode" /\ resp.status = 200 /\ Busy = {} =>
            \A k \in DOMAIN store :
                ~InEpisode(k, asked.show, asked.season, asked.episode))
    /\ [][\A i \in Slots :
             BulkStep(i) /\ reqs[i].scope = "episode" =>
                 \A k \in DOMAIN reqs[i].before :
                     ~InEpisode(k, asked.show, asked.season, asked.episode) =>
                         k \in DOMAIN store' /\ store'[k] = reqs[i].before[k]
         ]_vars

\* the step of the exact-version delete in slot i
VersionStep(i) == reqs[i].kind = "one" /\ reqs'[i] # reqs[i]

\* C13: an exact-version delete answers 404 only when no stored object has
\* the episode and version asked for, and then changes nothing; otherwise it
\* removes one object with exactly that episode and version and leaves every
\* other object (other versions such as 11 for 1, other episodes, seasons and
\* shows) as it was.
C13_ExactVersionDelete ==
    /\ [](resp.op = "version" /\ resp.status = 404 /\ Busy = {} =>
            \A k \in DOMAIN store :
                ~InVersion(k, asked.show, asked.season, asked.episode, asked.version))
    /\ [][/\ asked' # asked /\ asked'.scope = "version" => store' = store
          /\ \A i \in Slots :
                VersionStep(i) /\ resp'.status = 200 =>
                    \E k \in DOMAIN store :
                        /\ InVersion(k, asked.show, asked.season, asked.episode,
                                     asked.version)
                        /\ store' = Remove(k)
         ]_vars

\* C14: a catalog, show, season or episode delete whose prefix matches no
\* stored object answers success with deletedCount 0 and leaves the store as
\* it is; it is not answered 404 or 500.
C14_EmptyScopeSucceeds ==
    [][(/\ asked'.scope \in {"clear-all", "show", "season", "episode"}
        /\ resp'.op = asked'.scope
        /\ reqs' = reqs
        /\ resp' # resp \/ asked' # asked
        /\ getFiles(BulkPrefix(asked'.scope, asked'.show, asked'.season, asked'.episode)) = {})
          => resp'.status = 200 /\ resp'.count = 0 /\ store' = store
      ]_vars

\* season 10 of show f, which holds nothing, was deleted with count 0 while
\* two other objects are stored
C14_Witness ==
    /\ resp.op = "season" /\ resp.status = 200 /\ resp.count = 0
    /\ asked.scope = "season" /\ asked.show = <<"F">> /\ asked.season = <<"1", "0">>
    /\ Busy = {}
    /\ Cardinality(DOMAIN store) = 2
    /\ getFiles(BulkPrefix("season", <<"F">>, <<"1", "0">>, <<"1">>)) = {}

\* C15: without overlapping requests and store failures, deleteFilesByPrefix
\* returns the number of objects whose name starts with the prefix when it is
\* called; once it has returned no stored name starts with the prefix and
\* every object whose name does not start with it is as it was.
C15_DeleteByPrefix ==
    [][\A i \in Slots :
          BulkDone(i) =>
              LET r == reqs[i]
                  under == {k \in DOMAIN r.before : StartsWith(k, r.prefix)}
              IN  /\ resp'.count = Cardinality(under)
                  /\ \A k \in DOMAIN store' : ~StartsWith(k, r.prefix)
                  /\ \A k \in DOMAIN r.before \ under :
                         k \in DOMAIN store' /\ store'[k] = r.before[k]
      ]_vars

\* the season-less episode 1 of show f was deleted (one object); the objects
\* of its seasons 1 and 10 are stored
C15_Witness ==
    /\ resp.op = "episode" /\ resp.status = 200 /\ resp.count = 1
    /\ asked.scope = "episode" /\ asked.season = Absent
    /\ Busy = {}
    /\ deleted
    /\ DOMAIN store = {DestDir(<<"F">>, <<"1">>) \o Slash \o <<"1", "_", "v", "1", "_", "a">> \o DotSrt,
                       DestDir(<<"F">>, <<"1", "0">>) \o Slash \o <<"1", "_", "v", "1", "_", "a">> \o DotSrt}

\* C16: when a file.delete() of a bulk delete fails the request is answered
\* 500 without a count and nothing is restored: the failed object stays
\* stored, the objects whose deletes succeed (before or after the failure)
\* stay deleted, and no count is answered afterwards.
C16_PartialDeleteOnFailure ==
    [][\A i \in Slots :
          BulkStep(i) =>
              LET r == reqs[i]
              IN  /\ store' = store \/ \E k \in r.pending : store' = Remove(k)
                  /\ store' = store /\ ~r.failed =>
                         resp' = [op |-> r.scope, status |-> 500, count |-> 0,
                                  uploaded |-> <<>>, body |-> <<>>]
                  /\ r.failed => resp' = resp
                  /\ \A k \in DOMAIN store' :
                         k \in DOMAIN r.before /\ store'[k] = r.before[k]
      ]_vars

\* a show delete over two objects was answered 500: one object is deleted,
\* the one whose delete failed is stored
C16_Witness ==
    /\ resp.op = "show" /\ resp.status = 500
    /\ Busy = {}
    /\ deleted
    /\ Cardinality(DOMAIN store) = 1
    /\ \E p \in DOMAIN hist : Len(hist[p]) = 2

\* the object name is one the catalog builder accepts: three segments, or four
\* with a season segment, and a leaf that decodes
Accepted(name) ==
    LET parts == Split(name, Slash)
    IN  /\ Len(parts) = 3 \/ (Len(parts) = 4 /\ StartsWith(parts[3], SeasonTag))
        /\ parseVersionedFilename(Last(parts)).ok

\* the episode list of the catalog an accepted object name belongs to: the
\* show's sequence, or the list of its season in the show's mapping
EpisodesFor(shows, name) ==
    LET parts == Split(name, Slash)
        show == parts[2]
    IN  IF show \notin DOMAIN shows THEN <<>>
        ELSE IF Len(parts) = 3
             THEN (IF shows[show].shape = "sequence" THEN shows[show].eps ELSE <<>>)
        ELSE IF shows[show].shape = "mapping" /\ parts[3] \in DOMAIN shows[show].seasons
             THEN shows[show].seasons[parts[3]]
        ELSE <<>>

\* the places of the catalog where the object's version is listed
Entries(shows, name) ==
    LET leaf == Last(Split(name, Slash))
        parsed == parseVersionedFilename(leaf)
        eps == EpisodesFor(shows, name)
    IN  {p \in (1..Len(eps)) \X (1..MaxUploads) :
            /\ eps[p[1]].episode = parsed.episode
            /\ p[2] <= Len(eps[p[1]].versions)
            /\ eps[p[1]].versions[p[2]] = [version |-> parsed.version,
                                           source |-> parsed.source, filename |-> leaf]}

\* C17: when a show has a stored object with a season segment, the JSON
\* catalog presents the show as a mapping keyed by season label and the
\* season's entry holds the object's episode and version, also when the show
\* has season-less objects.
C17_SeasonShowIsMapping ==
    resp.op = "list" =>
        \A name \in DOMAIN store :
            Accepted(name) /\ Len(Split(name, Slash)) = 4 =>
                /\ Split(name, Slash)[2] \in DOMAIN catalog.shows
                /\ catalog.shows[Split(name, Slash)[2]].shape = "mapping"
                /\ Entries(catalog.shows, name) # {}

\* C18: every stored object the catalog builder accepts is listed exactly once
\* in the JSON catalog, under its show, its season if any and its episode,
\* with its version and source, whatever the mix of season-less and season
\* objects and the listing order.
C18_EveryAcceptedKeyListedOnce ==
    resp.op = "list" =>
        \A name \in DOMAIN store :
            Accepted(name) => Cardinality(Entries(catalog.shows, name)) = 1

\* the episode lists of a JSON catalog
EpisodeLists(shows) ==
    {shows[show].eps : show \in DOMAIN shows}
        \cup UNION {{shows[show].seasons[season] : season \in DOMAIN shows[show].seasons} :
                       show \in DOMAIN shows}

\* C19: in every JSON catalog each (show, season, episode) has one Episode
\* entry, and the versions of an entry are in ascending order of version
\* number, whatever the order in which the store listed the objects.
C19_OneEntrySortedVersions ==
    \A eps \in EpisodeLists(catalog.shows) :
        /\ \A m, n \in 1..Len(eps) : m # n => eps[m].episode # eps[n].episode
        /\ \A n \in 1..Len(eps) :
               \A v \in 1..(Len(eps[n].versions) - 1) :
                   eps[n].versions[v].version <= eps[n].versions[v + 1].version

\* the store listed version 2 of an episode before its version 1, and the
\* catalog has them as 1, 2
C19_Witness ==
    /\ resp.op = "list" /\ resp.status = 200
    /\ Len(catalog.order) = 2
    /\ parseVersionedFilename(Last(Split(catalog.order[1], Slash))).version = 2
    /\ parseVersionedFilename(Last(Split(catalog.order[2], Slash))).version = 1
    /\ \E eps \in EpisodeLists(catalog.shows) :
           /\ Len(eps) = 1
           /\ Len(eps[1].versions) = 2
           /\ eps[1].versions[1].version = 1
           /\ eps[1].versions[2].version = 2

\* the listing without its n-th object name
Without(order, n) == SubSeq(order, 1, n - 1) \o SubSeq(order, n + 1, Len(order))

\* C20: an object under shows/ that the catalog builder does not accept (a
\* leaf that is no versioned file name, or a segment count that is neither
\* three nor four with a season segment) is skipped: the catalog is the one
\* built from the same listing without it.
C20_SkippedKeyAddsNothing ==
    resp.op = "list" =>
        \A n \in 1..Len(catalog.order) :
            ~Accepted(catalog.order[n]) =>
                catalog.shows = BuildCatalog(Without(catalog.order, n))

\* the stored objects that uploads wrote as version `version` of episode
\* `episode` of (show, season): the names the upload builds for that address
HeldVersions(show, season, episode, version) ==
    {k \in DOMAIN store :
        \E source \in ReadInputs.sources :
            k = DestDir(show, season) \o Slash
                  \o buildVersionedFilename(JsString(episode), ParseInt(version).n, source)}

\* a step that answers an exact-version fetch
FetchStep == resp'.op = "fetch" /\ asked'.scope = "fetch" /\ (resp' # resp \/ asked' # asked)

\* C21: an exact-version fetch answers 404 when no object is stored for that
\* episode and version of that scope, and otherwise 200 with the bytes of the
\* upload that was assigned that episode and version.
C21_ExactVersionFetch ==
    [][FetchStep =>
          LET held == HeldVersions(asked'.show, asked'.season, asked'.episode,
                                   asked'.version)
          IN  /\ resp'.status = 404 <=> held = {}
              /\ resp'.status = 200 =>
                     \A k \in held : resp'.body = <<[bytes |-> store[k].content]>>
      ]_vars

\* the stored objects that uploads wrote for episode `episode` of (show, season)
HeldEpisode(show, season, episode) ==
    {k \in DOMAIN store :
        \E source \in ReadInputs.sources, version \in 1..MaxUploads :
            k = DestDir(show, season) \o Slash
                  \o buildVersionedFilename(JsString(episode), version, source)}

\* a step that answers a version listing
VersionsStep ==
    resp'.op = "versions" /\ asked'.scope = "versions" /\ (resp' # resp \/ asked' # asked)

\* C22: the version listing of an episode has exactly one entry for each
\* object stored for that episode in that scope, with the object's version
\* number and source tag, in ascending version order.
C22_VersionListing ==
    [][VersionsStep =>
          LET held == HeldEpisode(asked'.show, asked'.season, asked'.episode)
              body == resp'.body
          IN  /\ Len(body) = Cardinality(held)
              /\ \A k \in held :
                     Cardinality({n \in 1..Len(body) :
                         /\ body[n].filename = Last(Split(k, Slash))
                         /\ body[n].source = store[k].source
                         /\ buildVersionedFilename(JsString(asked'.episode), body[n].version,
                                                   body[n].source) = body[n].filename}) = 1
              /\ \A n \in 1..(Len(body) - 1) : body[n].version <= body[n + 1].version
      ]_vars

\* a step in which requireApiKey turns a write request away
GateRejectStep == gate' # gate /\ ~gate'.passed

\* C23: in every deployment configuration a mutating request that carries no
\* key or a wrong one is rejected and leaves the store unchanged (the store
\* changes only for a request that carried the configured key), and fetches,
\* version listings and catalog listings are answered without a key.
C23_WriteGate ==
    [][/\ store' # store => gate'.passed /\ gate'.key # Absent /\ gate'.key = gate'.apiKey
       /\ GateRejectStep => store' = store /\ resp'.status = 403
       /\ resp' # resp /\ resp'.op \in {"fetch", "versions", "list"} => resp'.status # 403
      ]_vars

\* the text before the first "_v" of a leaf is a positive integer in digits
PositiveEpisode(leaf) ==
    LET text == Split(leaf, <<"_", "v">>)[1]
    IN  /\ text # <<>>
        /\ \A n \in 1..Len(text) : IsDigit(text[n])
        /\ ParseInt(text).n > 0

\* C24: no object with an empty show segment, an empty season segment or an
\* episode that is not a positive integer is ever written: an upload whose
\* show or season sanitises to the empty string, or whose episode field is not
\* a positive integer, stores nothing.
C24_NoInvalidAddressStored ==
    \A k \in DOMAIN store :
        LET parts == Split(k, Slash)
        IN  /\ parts[2] # <<>>
            /\ Len(parts) = 4 => parts[3] # SeasonTag
            /\ PositiveEpisode(Last(parts))

\* the .srt entries of an archive whose names yield an episode number
Derivable(entry) ==
    /\ EndsWith(ToLowerCase(entry), DotSrt)
    /\ extractEpisodeNumber(entry).t = "number"
    /\ extractEpisodeNumber(entry).n > 0

\* C25: an archive upload skips the .srt entries whose episode number cannot
\* be derived and does not fail: when it answers, the status is 200 and the
\* uploaded list has, in order, one stored object for each other .srt entry;
\* an archive upload answered with an empty list has status 200.
C25_UnderivableEntriesSkipped ==
    [][/\ \A i \in Slots :
              reqs[i].kind = "zip" /\ reqs'[i] = Idle /\ hist' # hist =>
                  LET r == reqs[i]
                      kept == SelectSeq(r.entries, Derivable)
                  IN  /\ resp'.op = "upload" /\ resp'.status = 200
                      /\ Len(resp'.uploaded) = Len(kept)
                      /\ \A n \in 1..Len(kept) :
                             /\ resp'.uploaded[n].episode = extractEpisodeNumber(kept[n])
                             /\ DestDir(r.title, r.season) \o Slash
                                    \o resp'.uploaded[n].filename \in DOMAIN store'
       /\ resp' # resp /\ resp'.op = "upload" /\ resp'.uploaded = <<>> /\ resp'.status = 200 =>
              /\ store' = store
              /\ \E entries \in AllocInputs.archives : SelectSeq(entries, Derivable) = <<>>
      ]_vars

\* the archive (x.srt, 1.srt) was answered: one object stored and reported
C25_Witness ==
    /\ Busy = {}
    /\ resp.op = "upload" /\ resp.status = 200
    /\ Len(resp.uploaded) = 1
    /\ \E p \in DOMAIN hist : hist[p][Len(hist[p])].kind = "zip"

\* the leaf of the object name is a versioned file name for the decoder
Decodes(key) == parseVersionedFilename(Last(Split(key, Slash))).ok

\* C26: stored objects whose leaf is not a versioned file name (the
\* `<episode>.srt` keys of the unversioned upload among them) are ignored: an
\* upload is assigned one more than the highest version among the versioned
\* leaves of its episode, a version listing has only versioned leaves, and an
\* exact-version fetch answers 200 only with the bytes of an object with a
\* versioned leaf.
C26_NonVersionedIgnored ==
    [][/\ \A i \in Slots :
              reqs[i] = Idle /\ reqs'[i] # Idle /\ reqs'[i].kind = "upload" =>
                  LET r == reqs'[i]
                      same == {k \in DOMAIN store :
                                  /\ Decodes(k)
                                  /\ InEpisode(k, r.title, r.season, TemplateString(r.episode))}
                  IN  r.version =
                          SetMax({parseVersionedFilename(Last(Split(k, Slash))).version :
                                      k \in same}) + 1
       /\ VersionsStep =>
              \A n \in 1..Len(resp'.body) :
                  parseVersionedFilename(resp'.body[n].filename).ok
       /\ FetchStep /\ resp'.status = 200 =>
              \E k \in DOMAIN store :
                  /\ Decodes(k)
                  /\ StartsWith(k, FetchPrefix(asked'.show, asked'.season, asked'.episode,
                                               asked'.version))
                  /\ resp'.body = <<[bytes |-> store[k].content]>>
      ]_vars

\* C27: sanitise is idempotent, sanitise(sanitise(s)) = sanitise(s), and its
\* result never contains the character "/".
C27_SanitiseIdempotent ==
    /\ codec.phase \in {"once", "twice"} =>
           \A n \in 1..Len(codec.once) : codec.once[n] # "/"
    /\ codec.phase = "twice" =>
           /\ codec.twice = codec.once
           /\ \A n \in 1..Len(codec.twice) : codec.twice[n] # "/"

\* "F-a" was sanitised to "f-a", and sanitising that gave "f-a" again
C27_Witness ==
    /\ codec.phase = "twice"
    /\ codec.text = <<"F", "-", "a">>
    /\ codec.once = <<"f", "-", "a">>
    /\ codec.twice = <<"f", "-", "a">>

\* the leaf is <digits>_v<digits>_<non-empty source>.srt
IsVersionedLeaf(leaf) ==
    \E i, j \in 1..Len(leaf) :
        /\ i + 3 <= j
        /\ j + 2 <= Len(leaf) - 4
        /\ \A n \in 1..i : IsDigit(leaf[n])
        /\ SubSeq(leaf, i + 1, i + 2) = <<"_", "v">>
        /\ \A n \in (i + 3)..j : IsDigit(leaf[n])
        /\ leaf[j + 1] = "_"
        /\ EndsWith(leaf, DotSrt)

\* C28: parseVersionedFilename returns a value exactly for the leaves of the
\* form <digits>_v<digits>_<non-empty source>.srt, and null for every other
\* leaf: non-digit characters after the episode or version digits and a
\* missing .srt suffix are rejected, a source with "_" is accepted.
C28_DecoderMatchesGrammar ==
    codec.phase = "parsed" => (codec.parsed.ok <=> IsVersionedLeaf(codec.leaf))

\* a step in which a store operation of the request in slot i failed: an
\* upload left its slot without having saved, a version delete or a bulk
\* delete step left the store as it was
FailedStep(i) ==
    /\ reqs'[i] # reqs[i]
    /\ \/ reqs[i].kind \in {"upload", "zip"} /\ hist' = hist
       \/ reqs[i].kind = "zipscan" /\ reqs'[i] = Idle
       \/ reqs[i].kind \in {"one", "bulk"} /\ store' = store

\* C29: when a store operation of a request (a listing, a save, a delete, a
\* metadata read) fails the request is answered 500 and the operation is not
\* tried again; a request does not answer success after one of its store
\* operations failed.
C29_StoreFailureIs500 ==
    [][\A i \in Slots :
          /\ FailedStep(i) /\ reqs[i].kind # "bulk" =>
                 /\ resp'.status = 500
                 /\ reqs'[i] = Idle
                 /\ store' = store
          /\ FailedStep(i) /\ reqs[i].kind = "bulk" =>
                 /\ ~reqs[i].failed => resp'.status = 500 /\ resp'.op = reqs[i].scope
                 /\ reqs'[i] # Idle =>
                        /\ reqs'[i].failed
                        /\ Cardinality(reqs'[i].pending) = Cardinality(reqs[i].pending) - 1
          /\ reqs[i].kind = "bulk" /\ reqs[i].failed => resp' = resp
      ]_vars

\* a save failed after an earlier upload was stored: 500, and the store holds
\* the earlier object only
C29_Witness ==
    /\ Busy = {}
    /\ resp.op = "upload" /\ resp.status = 500
    /\ Cardinality(DOMAIN store) = 1
    /\ \E p \in DOMAIN hist : Len(hist[p]) = 1

\* a step that answers an upload with 400
RejectStep == resp' # resp /\ resp'.op = "upload" /\ resp'.status = 400

\* C30: an upload with a missing title, a missing source, no file, a file
\* name that ends in neither .srt nor .zip, or a single .srt whose episode is
\* neither supplied nor derivable, meets a test of the handler that answers
\* 400, and a step that answers 400 leaves the store and the requests in
\* flight as they were.
C30_RejectedUploadStoresNothing ==
    /\ [](\A q \in Rejected : UploadInvalid(q))
    /\ [][RejectStep => store' = store /\ reqs' = reqs /\ hist' = hist]_vars

\* an upload was answered 400 while the store held an object, and holds it still
C30_Witness ==
    /\ resp.op = "upload" /\ resp.status = 400
    /\ Busy = {}
    /\ Cardinality(DOMAIN store) = 1

\* a step that answers a HEAD request
HeadStep == resp'.op = "head" /\ asked'.scope = "head" /\ (resp' # resp \/ asked' # asked)

\* C31: a HEAD request for (title, episode) without a season answers 200
\* exactly when a version of that episode is stored in the season-less scope
\* of the show, 404 when none is, and leaves the store as it was.
C31_HeadSeasonless ==
    [][HeadStep /\ asked'.season = Absent =>
          LET found == \E k \in DOMAIN store :
                           InEpisode(k, asked'.show, Absent, asked'.episode)
          IN  /\ resp'.status = (IF found THEN 200 ELSE 404)
              /\ store' = store
      ]_vars

\* C32: a HEAD request for (title, season, episode) answers 200 exactly when
\* a version of that episode is stored in that season of the show and 404
\* otherwise: the season existence handler serves it, not the fetch route.
C32_HeadSeason ==
    [][HeadStep /\ asked'.season # Absent =>
          LET found == \E k \in DOMAIN store :
                           InEpisode(k, asked'.show, asked'.season, asked'.episode)
          IN  /\ resp'.status = (IF found THEN 200 ELSE 404)
              /\ store' = store
      ]_vars

\* the last answer is the success of an exact-version delete: no upload, and
\* no other request, has been answered since
VersionDeleted == resp.op = "version" /\ resp.status = 200 /\ asked.scope = "version"

\* the next request has the address of the delete that was answered last
SameAddress ==
    /\ asked'.show = asked.show /\ asked'.season = asked.season
    /\ asked'.episode = asked.episode /\ asked'.version = asked.version

\* C33: once an exact-version delete has answered success, and until an
\* upload, no stored object has that episode and version in that scope: a
\* following exact-version fetch of the same address answers 404 and a
\* repeated delete answers 404.
C33_DeletedVersionIsGone ==
    /\ [](VersionDeleted =>
              HeldVersions(asked.show, asked.season, asked.episode, asked.version) = {})
    /\ [][VersionDeleted /\ SameAddress /\ resp' # resp /\ resp'.op \in {"fetch", "version"}
              => resp'.status = 404]_vars

\* the catalog answered last reports version `version` of episode `episode`
\* in the season-less list of `show`
Reported(show, episode, version) ==
    /\ resp.op = "list" /\ resp.status = 200
    /\ sanitise(show) \in DOMAIN catalog.shows
    /\ \E n \in 1..Len(catalog.shows[sanitise(show)].eps) :
           LET ep == catalog.shows[sanitise(show)].eps[n]
           IN  /\ ep.episode = episode
               /\ \E m \in 1..Len(ep.versions) : ep.versions[m].version = version

\* C34: a version the JSON catalog reports as (show, episode e, version v) is
\* addressable with those values, also when it was uploaded with an episode
\* text such as "01": the exact-version fetch for (show, e, v) answers 200,
\* the version listing for (show, e) has an entry with version v, the
\* exact-version delete does not answer 404 and the episode delete does not
\* answer a count of 0.
C34_ReportedIsAddressable ==
    [][resp' # resp /\ asked'.season = Absent =>
          LET e == ParseInt(asked'.episode).n
              v == ParseInt(asked'.version).n
          IN  /\ resp'.op = "fetch" /\ Reported(asked'.show, e, v) => resp'.status = 200
              /\ resp'.op = "version" /\ Reported(asked'.show, e, v) => resp'.status # 404
              /\ resp'.op = "episode" /\ (\E w \in 1..MaxUploads : Reported(asked'.show, e, w))
                     => resp'.count > 0
              /\ resp'.op = "versions" =>
                     \A w \in 1..MaxUploads :
                         Reported(asked'.show, e, w) =>
                             \E n \in 1..Len(resp'.body) : resp'.body[n].version = w
      ]_vars

\* C35: within one archive upload, an entry of the same episode as an earlier
\* entry of the archive is stored as another object, with the version after
\* that entry's: no entry overwrites an entry of the same archive.
C35_ArchiveEntriesGetConsecutiveVersions ==
    \A i \in Slots :
        reqs[i].kind = "zip" =>
            LET r == reqs[i]
                earlier == {n \in 1..Len(r.uploaded) : r.uploaded[n].episode = r.episode}
            IN  /\ \A n \in earlier : r.uploaded[n].filename # r.destFilename
                /\ earlier # {} =>
                       r.version = r.uploaded[SetMax(earlier)].version + 1

\* the stored objects of the address an upload was scanned for: the objects
\* directly in its directory whose leaf decodes to its episode
OwnObjects(r) ==
    {k \in DOMAIN store :
        /\ StartsWith(k, DestDir(r.title, r.season) \o Slash)
        /\ Len(Split(k, Slash)) = Len(Split(DestDir(r.title, r.season), Slash)) + 1
        /\ Decodes(k)
        /\ JsNumber(parseVersionedFilename(Last(Split(k, Slash))).episode) = r.episode}

\* C36: the version assigned to an upload for (show, season, episode) is one
\* more than the highest version among the objects stored for that same
\* (show, season, episode): objects of other episodes (1 and 11), of the same
\* episode in another season or without a season, and of other shows (f and
\* fo) do not change it.
C36_VersionDependsOnOwnAddress ==
    [][\A i \in Slots :
          reqs'[i] # reqs[i] /\ reqs'[i].kind \in {"upload", "zip"} =>
              reqs'[i].version =
                  SetMax({parseVersionedFilename(Last(Split(k, Slash))).version :
                              k \in OwnObjects(reqs'[i])}) + 1
      ]_vars

\* an upload of episode 1 of show f without a season was assigned version 1
\* while episode 11 of that scope and episode 1 of season 1 are stored
C36_Witness ==
    /\ DOMAIN store = {DestDir(<<"F">>, Absent) \o Slash \o <<"1", "1", "_", "v", "1", "_", "a">> \o DotSrt,
                       DestDir(<<"F">>, <<"1">>) \o Slash \o <<"1", "_", "v", "1", "_", "a">> \o DotSrt}
    /\ \E i \in Slots :
           /\ reqs[i].kind = "upload"
           /\ reqs[i].title = <<"F">> /\ reqs[i].season = Absent
           /\ reqs[i].episode = JsNumber(1)
           /\ reqs[i].version = 1

\* C37: an archive upload is not atomic: when a store operation of a later
\* entry fails, the request is answered 500 without a list of uploaded files
\* and the objects written for its earlier entries stay stored, under the
\* names with their assigned versions.
C37_ArchiveNotAtomic ==
    [][\A i \in Slots :
          reqs[i].kind \in {"zip", "zipscan"} /\ reqs'[i] = Idle /\ hist' = hist =>
              LET r == reqs[i]
              IN  /\ resp'.op = "upload" /\ resp'.status = 500 /\ resp'.uploaded = <<>>
                  /\ \A n \in 1..Len(r.uploaded) :
                         LET k == DestDir(r.title, r.season) \o Slash \o r.uploaded[n].filename
                         IN  k \in DOMAIN store' /\ k \in DOMAIN store /\ store'[k] = store[k]
      ]_vars

\* the archive (11.srt, 1.srt) failed at its second entry: 500, and the
\* object of the first entry is stored
C37_Witness ==
    /\ Busy = {}
    /\ resp.op = "upload" /\ resp.status = 500
    /\ DOMAIN hist = {UploadPrefix(<<"F">>, Absent, JsNumber(11))}
    /\ DOMAIN store = {DestDir(<<"F">>, Absent) \o Slash
                           \o <<"1", "1", "_", "v", "1", "_", "a">> \o DotSrt}

\* the listing in slot i reads the metadata of an object that was deleted
\* after its key scan
ReadsDeleted(i) ==
    /\ reqs[i].kind = "list"
    /\ reqs'[i] # reqs[i]
    /\ reqs[i].pos <= Len(reqs[i].order)
    /\ Accepted(reqs[i].order[reqs[i].pos])
    /\ reqs[i].order[reqs[i].pos] \notin DOMAIN store

\* C38: a JSON listing whose metadata read meets an object deleted after the
\* key scan answers 500, not the catalog of the remaining objects; a listing
\* that answers 200 reports only versions of objects of its key scan.
C38_ListingFailsOnDeletedObject ==
    [][\A i \in Slots :
          /\ ReadsDeleted(i) =>
                 /\ resp'.op = "list" /\ resp'.status = 500
                 /\ reqs'[i] = Idle
                 /\ catalog' = catalog
          /\ reqs[i].kind = "list" /\ reqs'[i] = Idle /\ resp'.status = 200 =>
                 \A eps \in EpisodeLists(catalog'.shows) :
                     \A n \in 1..Len(eps) :
                         \A m \in 1..Len(eps[n].versions) :
                             \E p \in 1..Len(reqs[i].order) :
                                 Last(Split(reqs[i].order[p], Slash)) = eps[n].versions[m].filename
      ]_vars

\* a listing answered 500 while an object is stored
C38_Witness ==
    /\ resp.op = "list" /\ resp.status = 500
    /\ DOMAIN store # {}
    /\ \A i \in Slots : reqs[i].kind # "list"

====
